---- MODULE Spec2Model ----
(***************************************************************************)
(* A model of vpn-commander: a Telegram bot (TelegramBot) that toggles the *)
(* outboundTag of the default routing rule of a remote Xray configuration  *)
(* (VPNManager) over SSH (SSHClient).                                      *)
(*                                                                         *)
(* Specifications:                                                         *)
(*   SpecRule   the pure predicate VPNManager.isTargetRule                 *)
(*   SpecVM     the VPNManager operations on the remote configuration      *)
(*   SpecCache  the authorization cache of TelegramBot                     *)
(*   Spec       TelegramBot.Start: one update handled at a time            *)
(*   SpecPath   VPNManager with SetConfigPath and GetConfigPath            *)
(*   SpecMain   Spec started by main with its environment variables        *)
(*   SpecStatus the classification of the output of "xkeen -status"        *)
(*   SpecSSH    SSHClient.ExecuteCommand called again and again            *)
(*   SpecLoop   the loop of Start over the channel of updates              *)
(*   SpecHealth the process of main and its health checks                  *)
(*   SpecLock   goroutines in the cache operations, at userMutex           *)
(*   SpecExec   goroutines inside SSHClient.ExecuteCommand                 *)
(*   SpecSend   the loop of TelegramBot.sendMessage, attempt by attempt     *)
(***************************************************************************)
EXTENDS Integers, Sequences, FiniteSets, TLC

VARIABLES
    rule,           \* SpecRule: the Rule handed to isTargetRule
    ruleResult,     \* SpecRule: [called |-> FALSE], then the value returned
    remoteFile,     \* the files on the router: path -> content
    client,         \* SSHClient.client: "nil" or "conn"
    connAlive,      \* the held connection can still open a session
    hostUp,         \* the router accepts a new connection
    ops,            \* the remote commands issued by the last operation
    vmLast,         \* the last VPNManager call and what it returned
    authorizedUsers,\* TelegramBot.authorizedUsers: user ID -> cached VPNStatus
    everAuthorized, \* history: the user IDs authorizeUser was ever called for
    cacheLast,      \* SpecCache: the last cache call and what it returned
    botLast,        \* the update handleUpdate handled last, or idle
    configPath,     \* VPNManager.configPath
    environ,        \* the environment variables main is started with
    svcLast,        \* SpecStatus: an output of "xkeen -status", then its class
    updates,        \* SpecLoop: the updates waiting in the channel of Start
    health,         \* SpecHealth: the process of main and its health checks
    mu,             \* SpecLock: TelegramBot.userMutex and the goroutines at it
    exec,           \* SpecExec: goroutines inside SSHClient.ExecuteCommand
    send            \* SpecSend: a call of sendMessage and tb.lastMessages

vars == <<rule, ruleResult, remoteFile, client, connAlive, hostUp, ops, vmLast,
          authorizedUsers, everAuthorized, cacheLast, botLast, configPath,
          environ, svcLast, updates, health, mu, exec, send>>

cacheVars == <<authorizedUsers, everAuthorized, cacheLast, botLast>>

ruleVars == <<rule, ruleResult>>

\* the variables of the specifications about one component alone
auxVars == <<health, mu, exec, send>>

\* the variables only SpecPath, SpecMain, SpecStatus and SpecLoop change
idleVars == <<configPath, environ, svcLast, updates, auxVars>>

sshVars == <<remoteFile, client, connAlive, hostUp, ops>>

\* -------------------------------------------------------------------------
\* Bounds of the model
\* -------------------------------------------------------------------------

\* longest inboundTag list handed to isTargetRule
MaxTags == 3

\* most rules in the routing section of an initial remote file
MaxRules == 2

\* number of Telegram users
NumUsers == 2

\* most chat requests that fail in a row during one update
MaxSendFails == 3

\* most pieces in an output of "xkeen -status"
MaxOutput == 3
NumGoroutines == 2

\* largest message ID the chat service hands out
MaxMessageID == 2

\* -------------------------------------------------------------------------
\* Generic helpers
\* -------------------------------------------------------------------------

\* all sequences over S of length at most n
SeqsUpTo(S, n) == UNION {[1..k -> S] : k \in 0..n}

\* the set of elements of a sequence
Range(s) == {s[i] : i \in DOMAIN s}

\* -------------------------------------------------------------------------
\* VPNManager: the data model (part_000 lines 10-47)
\* -------------------------------------------------------------------------

VPNStatusEnabled == "enabled"
VPNStatusDisabled == "disabled"
VPNStatusUnknown == "unknown"

VPNStatuses == {VPNStatusEnabled, VPNStatusDisabled, VPNStatusUnknown}

\* an interface{} field of Rule: nil, or a list of strings
NilValue == [nil |-> TRUE]

ListValue(l) == [nil |-> FALSE, list |-> l]

\* a Rule struct; the zero value of a string field is "", of a slice <<>>
Rule(type, inboundTag, outboundTag, network, domain, ip, port, protocol) ==
    [Type |-> type, InboundTag |-> inboundTag, OutboundTag |-> outboundTag,
     Network |-> network, Domain |-> domain, IP |-> ip, Port |-> port,
     Protocol |-> protocol]

\* -------------------------------------------------------------------------
\* VPNManager.isTargetRule (part_000 lines 171-190)
\* -------------------------------------------------------------------------

\* the loop over rule.InboundTag: one iteration per tag, from index i on
RECURSIVE scanInboundTags(_, _, _)
scanInboundTags(tags, i, found) ==
    IF i > Len(tags) THEN found
    ELSE IF tags[i] = "redirect"
         THEN scanInboundTags(tags, i + 1, [found EXCEPT !.hasRedirect = TRUE])
         ELSE IF tags[i] = "tproxy"
              THEN scanInboundTags(tags, i + 1, [found EXCEPT !.hasTproxy = TRUE])
              ELSE scanInboundTags(tags, i + 1, found)

\* mutant: the two tag flags joined by "or" instead of "and"
isTargetRuleEitherTag(r) ==
    LET found == scanInboundTags(r.InboundTag, 1,
                                 [hasRedirect |-> FALSE, hasTproxy |-> FALSE])
    IN  (found.hasRedirect \/ found.hasTproxy) /\ r.Network = "tcp,udp"

\* mutant: the network comparison left out
isTargetRuleAnyNetwork(r) ==
    LET found == scanInboundTags(r.InboundTag, 1,
                                 [hasRedirect |-> FALSE, hasTproxy |-> FALSE])
    IN  found.hasRedirect /\ found.hasTproxy

isTargetRule(r) ==
    LET found == scanInboundTags(r.InboundTag, 1,
                                 [hasRedirect |-> FALSE, hasTproxy |-> FALSE])
        hasCorrectNetwork == r.Network = "tcp,udp"
    IN  found.hasRedirect /\ found.hasTproxy /\ hasCorrectNetwork

\* -------------------------------------------------------------------------
\* The remote configuration file and encoding/json
\* -------------------------------------------------------------------------
\* The content of the remote file is [valid |-> FALSE] (not JSON) or
\* [valid |-> TRUE, obj |-> o], where a JSON object o is a function from the
\* keys it holds to their values.  A struct of the program has every field.

Empty == [k \in {} |-> k]

\* the object {k: v} when present, {} otherwise
Opt(k, present, v) == IF present THEN k :> v ELSE Empty

Garbage == [valid |-> FALSE]

Json(o) == [valid |-> TRUE, obj |-> o]

\* the value of key k of object o, or zero when o has no such key
Field(o, k, zero) == IF k \in DOMAIN o THEN o[k] ELSE zero

\* json.Unmarshal into Rule: known keys are read, unknown keys are dropped
unmarshalRule(o) ==
    Rule(Field(o, "type", ""), Field(o, "inboundTag", <<>>),
         Field(o, "outboundTag", ""), Field(o, "network", ""),
         IF "domain" \in DOMAIN o THEN ListValue(o["domain"]) ELSE NilValue,
         IF "ip" \in DOMAIN o THEN ListValue(o["ip"]) ELSE NilValue,
         Field(o, "port", ""),
         IF "protocol" \in DOMAIN o THEN ListValue(o["protocol"]) ELSE NilValue)

\* *RoutingConfig: nil, or the struct
NilRouting == [nil |-> TRUE]

unmarshalRouting(o) ==
    [nil |-> FALSE,
     DomainStrategy |-> Field(o, "domainStrategy", ""),
     Rules |-> LET rs == Field(o, "rules", <<>>)
               IN  [i \in DOMAIN rs |-> unmarshalRule(rs[i])]]

\* json.Unmarshal into XrayConfig
Unmarshal(content) ==
    IF ~content.valid
    THEN [err |-> TRUE, config |-> [Routing |-> NilRouting]]
    ELSE [err |-> FALSE,
          config |-> [Routing |-> IF "routing" \in DOMAIN content.obj
                                  THEN unmarshalRouting(content.obj["routing"])
                                  ELSE NilRouting]]

\* mutant: the network of a rule is not written
marshalRuleNoNetwork(r) ==
    Opt("type", r.Type # "", r.Type)
    @@ Opt("inboundTag", Len(r.InboundTag) > 0, r.InboundTag)
    @@ Opt("outboundTag", r.OutboundTag # "", r.OutboundTag)
    @@ Opt("domain", ~r.Domain.nil, IF r.Domain.nil THEN <<>> ELSE r.Domain.list)
    @@ Opt("ip", ~r.IP.nil, IF r.IP.nil THEN <<>> ELSE r.IP.list)
    @@ Opt("port", r.Port # "", r.Port)
    @@ Opt("protocol", ~r.Protocol.nil,
           IF r.Protocol.nil THEN <<>> ELSE r.Protocol.list)

\* json.MarshalIndent of a Rule: every field is omitempty
marshalRule(r) ==
    Opt("type", r.Type # "", r.Type)
    @@ Opt("inboundTag", Len(r.InboundTag) > 0, r.InboundTag)
    @@ Opt("outboundTag", r.OutboundTag # "", r.OutboundTag)
    @@ Opt("network", r.Network # "", r.Network)
    @@ Opt("domain", ~r.Domain.nil, IF r.Domain.nil THEN <<>> ELSE r.Domain.list)
    @@ Opt("ip", ~r.IP.nil, IF r.IP.nil THEN <<>> ELSE r.IP.list)
    @@ Opt("port", r.Port # "", r.Port)
    @@ Opt("protocol", ~r.Protocol.nil,
           IF r.Protocol.nil THEN <<>> ELSE r.Protocol.list)

marshalRouting(rt) ==
    Opt("domainStrategy", rt.DomainStrategy # "", rt.DomainStrategy)
    @@ Opt("rules", Len(rt.Rules) > 0,
           [i \in DOMAIN rt.Rules |-> marshalRule(rt.Rules[i])])

\* json.MarshalIndent of an XrayConfig
MarshalIndent(config) ==
    Json(Opt("routing", ~config.Routing.nil,
             IF config.Routing.nil THEN Empty ELSE marshalRouting(config.Routing)))

\* -------------------------------------------------------------------------
\* Strings
\* -------------------------------------------------------------------------
\* A text is the sequence of its characters; an emoji, an escape character
\* or a word of a status line stands as one character.

HasPrefix(s, prefix) ==
    Len(s) >= Len(prefix) /\ SubSeq(s, 1, Len(prefix)) = prefix

Contains(s, sub) ==
    \E i \in 1..(Len(s) - Len(sub) + 1) : SubSeq(s, i, i + Len(sub) - 1) = sub

IsSpace(c) == c \in {" ", "\n", "\t", "\r"}

\* strings.Fields: the maximal runs of non-space characters
RECURSIVE fieldsFrom(_, _, _, _)
fieldsFrom(s, i, word, acc) ==
    IF i > Len(s)
    THEN IF word = <<>> THEN acc ELSE Append(acc, word)
    ELSE IF IsSpace(s[i])
    THEN fieldsFrom(s, i + 1, <<>>, IF word = <<>> THEN acc ELSE Append(acc, word))
    ELSE fieldsFrom(s, i + 1, Append(word, s[i]), acc)

Fields(s) == fieldsFrom(s, 1, <<>>, <<>>)

\* strings.TrimSpace
RECURSIVE TrimLeft(_)
TrimLeft(s) ==
    IF s # <<>> /\ IsSpace(Head(s)) THEN TrimLeft(Tail(s)) ELSE s

RECURSIVE TrimRight(_)
TrimRight(s) ==
    IF s # <<>> /\ IsSpace(s[Len(s)]) THEN TrimRight(SubSeq(s, 1, Len(s) - 1))
    ELSE s

TrimSpace(s) == TrimRight(TrimLeft(s))

\* strings.ReplaceAll(s, old, ""): the occurrences of old, left to right
RECURSIVE removeAllFrom(_, _, _, _)
removeAllFrom(s, old, i, acc) ==
    IF i > Len(s) THEN acc
    ELSE IF HasPrefix(SubSeq(s, i, Len(s)), old)
    THEN removeAllFrom(s, old, i + Len(old), acc)
    ELSE removeAllFrom(s, old, i + 1, Append(acc, s[i]))

RemoveAll(s, old) == removeAllFrom(s, old, 1, <<>>)

\* strings.Split(s, "\n")
RECURSIVE splitLinesFrom(_, _, _, _)
splitLinesFrom(s, i, line, acc) ==
    IF i > Len(s) THEN Append(acc, line)
    ELSE IF s[i] = "\n" THEN splitLinesFrom(s, i + 1, <<>>, Append(acc, line))
    ELSE splitLinesFrom(s, i + 1, Append(line, s[i]), acc)

SplitLines(s) == splitLinesFrom(s, 1, <<>>, <<>>)

\* strings.Join(lines, "\n")
RECURSIVE JoinLines(_)
JoinLines(lines) ==
    IF lines = <<>> THEN <<>>
    ELSE IF Len(lines) = 1 THEN lines[1]
    ELSE lines[1] \o <<"\n">> \o JoinLines(Tail(lines))

\* -------------------------------------------------------------------------
\* SSHClient (ssh_client.go lines 170-384)
\* -------------------------------------------------------------------------
\* An operation threads a record st through the commands it runs:
\*   st.client     "nil" or "conn": SSHClient.client
\*   st.connAlive  can the held connection still open a session
\*   st.file       the files of the router: path -> content
\*   st.configPath VPNManager.configPath
\*   st.ops        the remote commands and chat requests issued so far
\*   st.svcOut     what "xkeen -status" prints in this operation
\*   st.sendFails  how many of the next chat requests fail
\*   st.auth       TelegramBot.authorizedUsers
\*   st.handler    the handler handleUpdate dispatched to
\* fails is the set of command kinds that exit with an error in this operation.

ConnectFailed == "failed to establish SSH connection"
SessionFailed == "failed to create SSH session"
CommandFailed == "command execution failed"
ErrNil == "nil"

Logged(st, cmd, outcome) ==
    [st EXCEPT !.ops = Append(@, [cmd |-> cmd, outcome |-> outcome])]

\* a command on a file is logged with the path it names
LoggedCommand(st, command, outcome) ==
    IF "path" \in DOMAIN command
    THEN [st EXCEPT !.ops = Append(@, [cmd |-> command.kind,
                                       path |-> command.path,
                                       outcome |-> outcome])]
    ELSE Logged(st, command.kind, outcome)

\* SSHClient.Connect: ssh.Dial, then s.client = client
Connect(st) ==
    IF hostUp
    THEN [st |-> [Logged(st, "connect", "ok") EXCEPT !.client = "conn",
                                                     !.connAlive = TRUE],
          err |-> ErrNil]
    ELSE [st |-> Logged(st, "connect", "failed"), err |-> ConnectFailed]

\* the effect of a command that ran to completion on the remote host
Remote(st, command) ==
    IF command.kind = "write"
    THEN [st EXCEPT !.file[command.path] = command.content]
    ELSE st

\* the combined output of a command that ran to completion
Output(st, command) ==
    IF command.kind = "cat" THEN st.file[command.path]
    ELSE IF command.kind = "status" THEN st.svcOut
    ELSE <<>>

\* mutant: a command that failed is issued once more
ExecuteCommandRetries(st, command, fails) ==
    LET c == IF st.client = "nil" THEN Connect(st)
                                  ELSE [st |-> st, err |-> ErrNil]
    IN  IF c.err # ErrNil
        THEN [st |-> c.st, output |-> Garbage, err |-> ConnectFailed]
        ELSE IF ~c.st.connAlive
        THEN [st |-> LoggedCommand(c.st, command, SessionFailed),
              output |-> Garbage, err |-> SessionFailed]
        ELSE IF command.kind \in fails
        THEN [st |-> LoggedCommand(Remote(LoggedCommand(c.st, command,
                                                         CommandFailed),
                                          command), command, "ok"),
              output |-> Output(c.st, command), err |-> ErrNil]
        ELSE [st |-> LoggedCommand(Remote(c.st, command), command, "ok"),
              output |-> Output(c.st, command), err |-> ErrNil]

\* mutant: every call dials, also when a client is held
ExecuteCommandAlwaysConnects(st, command, fails) ==
    LET c == Connect(st)
    IN  IF c.err # ErrNil
        THEN [st |-> c.st, output |-> Garbage, err |-> ConnectFailed]
        ELSE IF command.kind \in fails
        THEN [st |-> LoggedCommand(c.st, command, CommandFailed),
              output |-> Garbage, err |-> CommandFailed]
        ELSE [st |-> LoggedCommand(Remote(c.st, command), command, "ok"),
              output |-> Output(c.st, command), err |-> ErrNil]

\* SSHClient.ExecuteCommand
ExecuteCommand(st, command, fails) ==
    LET c == IF st.client = "nil" THEN Connect(st)
                                  ELSE [st |-> st, err |-> ErrNil]
    IN  IF c.err # ErrNil
        THEN [st |-> c.st, output |-> Garbage, err |-> ConnectFailed]
        ELSE IF ~c.st.connAlive
        THEN [st |-> LoggedCommand(c.st, command, SessionFailed),
              output |-> Garbage, err |-> SessionFailed]
        ELSE IF command.kind \in fails
        THEN [st |-> LoggedCommand(c.st, command, CommandFailed),
              output |-> Garbage, err |-> CommandFailed]
        ELSE [st |-> LoggedCommand(Remote(c.st, command), command, "ok"),
              output |-> Output(c.st, command), err |-> ErrNil]

\* SSHClient.ReadFile: cat <path>
ReadFile(st, filePath, fails) ==
    ExecuteCommand(st, [kind |-> "cat", path |-> filePath], fails)

\* mutant: a failed backup copy ends WriteFile with an error
WriteFileBackupFatal(st, filePath, content, fails) ==
    LET b == ExecuteCommand(st, [kind |-> "cp", path |-> filePath], fails)
        w == ExecuteCommand(b.st, [kind |-> "write", path |-> filePath,
                                   content |-> content], fails)
    IN  IF b.err # ErrNil THEN [st |-> b.st, err |-> "failed to write file"]
        ELSE [st |-> w.st,
              err |-> IF w.err # ErrNil THEN "failed to write file" ELSE ErrNil]

\* SSHClient.WriteFile: a backup copy (its failure is only logged), then the
\* heredoc overwrite
WriteFile(st, filePath, content, fails) ==
    LET b == ExecuteCommand(st, [kind |-> "cp", path |-> filePath], fails)
        w == ExecuteCommand(b.st, [kind |-> "write", path |-> filePath,
                                   content |-> content], fails)
    IN  [st |-> w.st,
         err |-> IF w.err # ErrNil THEN "failed to write file" ELSE ErrNil]

\* SSHClient.RestartService: xkeen -restart
RestartService(st, fails) ==
    LET r == ExecuteCommand(st, [kind |-> "restart"], fails)
    IN  [st |-> r.st,
         err |-> IF r.err # ErrNil THEN "failed to restart Xray service"
                                   ELSE ErrNil]

\* SSHClient.StartService: xkeen -start
StartService(st, fails) ==
    LET r == ExecuteCommand(st, [kind |-> "start"], fails)
    IN  [st |-> r.st,
         err |-> IF r.err # ErrNil THEN "failed to start Xray service" ELSE ErrNil]

\* SSHClient.StopService: xkeen -stop
StopService(st, fails) ==
    LET r == ExecuteCommand(st, [kind |-> "stop"], fails)
    IN  [st |-> r.st,
         err |-> IF r.err # ErrNil THEN "failed to stop Xray service" ELSE ErrNil]

\* mutant: the loop over the lines ends at the first diagnostic line
RECURSIVE cleanLinesUntilDiagnostic(_)
cleanLinesUntilDiagnostic(lines) ==
    IF lines = <<>> THEN <<>>
    ELSE LET line == TrimSpace(Head(lines))
         IN  IF Contains(line, <<"applet not found">>) THEN <<>>
             ELSE IF line # <<>>
             THEN <<line>> \o cleanLinesUntilDiagnostic(Tail(lines))
             ELSE cleanLinesUntilDiagnostic(Tail(lines))

\* the lines GetServiceStatus keeps: trimmed, not empty, without the
\* "applet not found" diagnostic
RECURSIVE cleanLines(_)
cleanLines(lines) ==
    IF lines = <<>> THEN <<>>
    ELSE LET line == TrimSpace(Head(lines))
         IN  IF /\ line # <<>>
                /\ ~Contains(line, <<"ps: ", "applet not found">>)
                /\ ~Contains(line, <<"applet not found">>)
             THEN <<line>> \o cleanLines(Tail(lines))
             ELSE cleanLines(Tail(lines))

\* SSHClient.GetServiceStatus: xkeen -status, then the cleaning of its output
GetServiceStatus(st, fails) ==
    LET r == ExecuteCommand(st, [kind |-> "status"], fails)
    IN  IF r.err # ErrNil
        THEN [st |-> r.st, output |-> <<>>,
              err |-> "failed to get Xray service status"]
        ELSE [st |-> r.st, output |-> JoinLines(cleanLines(SplitLines(r.output))),
              err |-> ErrNil]

\* -------------------------------------------------------------------------
\* VPNManager (part_000 lines 58-243)
\* -------------------------------------------------------------------------

ErrReadConfig == "failed to read config file"
ErrParseConfig == "failed to parse config JSON"
ErrNoRouting == "no routing configuration found"
ErrNoRules == "no routing rules found"
ErrTargetNotFound == "target routing rule not found"
ErrLastRuleNotDefault == "last rule is not the expected default routing rule"
ErrWriteConfig == "failed to write updated config"

\* mutant: an unrecognized tag is reported as disabled
statusOfOutboundTagDefaultDisabled(tag) ==
    IF tag = "vless-reality" THEN VPNStatusEnabled ELSE VPNStatusDisabled

\* the switch on rule.OutboundTag in GetStatus
statusOfOutboundTag(tag) ==
    IF tag = "vless-reality" THEN VPNStatusEnabled
    ELSE IF tag = "direct" THEN VPNStatusDisabled
    ELSE VPNStatusUnknown

\* mutant: the scan falls back to the last rule when no rule matches
RECURSIVE firstTargetRuleOrLast(_, _)
firstTargetRuleOrLast(rules, i) ==
    IF i > Len(rules) THEN Len(rules)
    ELSE IF isTargetRule(rules[i]) THEN i
    ELSE firstTargetRuleOrLast(rules, i + 1)

\* the loop "for _, rule := range config.Routing.Rules" of GetStatus and of
\* ValidateConfiguration, from index i on: the index of the rule it stops at,
\* or 0 when it runs to the end
RECURSIVE firstTargetRule(_, _)
firstTargetRule(rules, i) ==
    IF i > Len(rules) THEN 0
    ELSE IF isTargetRule(rules[i]) THEN i
    ELSE firstTargetRule(rules, i + 1)

\* mutant: a matched rule with an unrecognized tag is an error
GetStatusUnknownTagIsError(st, fails) ==
    LET r == ReadFile(st, st.configPath, fails)
        u == Unmarshal(r.output)
        rules == u.config.Routing.Rules
        i == firstTargetRule(rules, 1)
    IN  IF r.err # ErrNil
        THEN [st |-> r.st, status |-> VPNStatusUnknown, err |-> ErrReadConfig]
        ELSE IF u.err
        THEN [st |-> r.st, status |-> VPNStatusUnknown, err |-> ErrParseConfig]
        ELSE IF u.config.Routing.nil
        THEN [st |-> r.st, status |-> VPNStatusUnknown, err |-> ErrNoRouting]
        ELSE IF i # 0 /\ statusOfOutboundTag(rules[i].OutboundTag)
                            # VPNStatusUnknown
        THEN [st |-> r.st, status |-> statusOfOutboundTag(rules[i].OutboundTag),
              err |-> ErrNil]
        ELSE [st |-> r.st, status |-> VPNStatusUnknown, err |-> ErrTargetNotFound]

\* VPNManager.GetStatus
GetStatus(st, fails) ==
    LET r == ReadFile(st, st.configPath, fails)
        u == Unmarshal(r.output)
        rules == u.config.Routing.Rules
        i == firstTargetRule(rules, 1)
    IN  IF r.err # ErrNil
        THEN [st |-> r.st, status |-> VPNStatusUnknown, err |-> ErrReadConfig]
        ELSE IF u.err
        THEN [st |-> r.st, status |-> VPNStatusUnknown, err |-> ErrParseConfig]
        ELSE IF u.config.Routing.nil
        THEN [st |-> r.st, status |-> VPNStatusUnknown, err |-> ErrNoRouting]
        ELSE IF i # 0
        THEN [st |-> r.st, status |-> statusOfOutboundTag(rules[i].OutboundTag),
              err |-> ErrNil]
        ELSE [st |-> r.st, status |-> VPNStatusUnknown, err |-> ErrTargetNotFound]

\* mutant: the first rule that matches is mutated, whatever its position
lastRuleIndexFirstMatch(rules) ==
    IF firstTargetRule(rules, 1) # 0 THEN firstTargetRule(rules, 1) ELSE Len(rules)

\* lastRuleIndex := len(config.Routing.Rules) - 1, as an index from 1
lastRuleIndex(rules) == Len(rules)

\* mutant: a copy of the rule with the new tag is appended
withOutboundTagAppended(config, index, outboundTag) ==
    [config EXCEPT !.Routing.Rules =
        Append(@, [@[index] EXCEPT !.OutboundTag = outboundTag])]

\* config.Routing.Rules[lastRuleIndex].OutboundTag = outboundTag
withOutboundTag(config, index, outboundTag) ==
    [config EXCEPT !.Routing.Rules[index].OutboundTag = outboundTag]

\* VPNManager.restartXrayService
restartXrayService(st, fails) == RestartService(st, fails)

\* mutant: a failed restart fails the mutation
writeAndRestartStrict(st, content, fails) ==
    LET w == WriteFile(st, st.configPath, content, fails)
        x == restartXrayService(w.st, fails)
    IN  IF w.err # ErrNil THEN [st |-> w.st, err |-> ErrWriteConfig]
        ELSE [st |-> x.st, err |-> x.err]

\* the tail of setOutboundTag: write the file, then restart the service; a
\* failed restart is only logged
writeAndRestart(st, content, fails) ==
    LET w == WriteFile(st, st.configPath, content, fails)
        x == restartXrayService(w.st, fails)
    IN  IF w.err # ErrNil THEN [st |-> w.st, err |-> ErrWriteConfig]
        ELSE [st |-> x.st, err |-> ErrNil]

\* mutant: a configuration without routing section is written back as it is
setOutboundTagNoRoutingCheck(st, outboundTag, fails) ==
    LET r == ReadFile(st, st.configPath, fails)
        u == Unmarshal(r.output)
        rules == u.config.Routing.Rules
        last == lastRuleIndex(rules)
    IN  IF r.err # ErrNil THEN [st |-> r.st, err |-> ErrReadConfig]
        ELSE IF u.err THEN [st |-> r.st, err |-> ErrParseConfig]
        ELSE IF u.config.Routing.nil
        THEN writeAndRestart(r.st, MarshalIndent(u.config), fails)
        ELSE IF Len(rules) = 0 THEN [st |-> r.st, err |-> ErrNoRules]
        ELSE IF ~isTargetRule(rules[last])
        THEN [st |-> r.st, err |-> ErrLastRuleNotDefault]
        ELSE writeAndRestart(r.st,
                 MarshalIndent(withOutboundTag(u.config, last, outboundTag)),
                 fails)

\* VPNManager.setOutboundTag
setOutboundTag(st, outboundTag, fails) ==
    LET r == ReadFile(st, st.configPath, fails)
        u == Unmarshal(r.output)
        rules == u.config.Routing.Rules
        last == lastRuleIndex(rules)
    IN  IF r.err # ErrNil THEN [st |-> r.st, err |-> ErrReadConfig]
        ELSE IF u.err THEN [st |-> r.st, err |-> ErrParseConfig]
        ELSE IF u.config.Routing.nil THEN [st |-> r.st, err |-> ErrNoRouting]
        ELSE IF Len(rules) = 0 THEN [st |-> r.st, err |-> ErrNoRules]
        ELSE IF ~isTargetRule(rules[last])
        THEN [st |-> r.st, err |-> ErrLastRuleNotDefault]
        ELSE writeAndRestart(r.st,
                 MarshalIndent(withOutboundTag(u.config, last, outboundTag)),
                 fails)

\* VPNManager.EnableVPN
EnableVPN(st, fails) == setOutboundTag(st, "vless-reality", fails)

\* VPNManager.DisableVPN
DisableVPN(st, fails) == setOutboundTag(st, "direct", fails)

\* mutant: the rules are not scanned
ValidateConfigurationNoScan(st, fails) ==
    LET r == ReadFile(st, st.configPath, fails)
        u == Unmarshal(r.output)
    IN  IF r.err # ErrNil THEN [st |-> r.st, err |-> ErrReadConfig]
        ELSE IF u.err THEN [st |-> r.st, err |-> "invalid JSON configuration"]
        ELSE IF u.config.Routing.nil THEN [st |-> r.st, err |-> ErrNoRouting]
        ELSE [st |-> r.st, err |-> ErrNil]

\* VPNManager.ValidateConfiguration
ValidateConfiguration(st, fails) ==
    LET r == ReadFile(st, st.configPath, fails)
        u == Unmarshal(r.output)
        targetRuleFound == firstTargetRule(u.config.Routing.Rules, 1) # 0
    IN  IF r.err # ErrNil THEN [st |-> r.st, err |-> ErrReadConfig]
        ELSE IF u.err THEN [st |-> r.st, err |-> "invalid JSON configuration"]
        ELSE IF u.config.Routing.nil THEN [st |-> r.st, err |-> ErrNoRouting]
        ELSE IF ~targetRuleFound THEN [st |-> r.st, err |-> ErrTargetNotFound]
        ELSE [st |-> r.st, err |-> ErrNil]

\* VPNManager.GetConfigPath
GetConfigPath(st) == st.configPath

\* mutant: the path handed over is dropped
SetConfigPathIgnored(st, path) == st

\* VPNManager.SetConfigPath
SetConfigPath(st, path) == [st EXCEPT !.configPath = path]

\* VPNManager.StartVPNService
StartVPNService(st, fails) == StartService(st, fails)

\* VPNManager.StopVPNService
StopVPNService(st, fails) == StopService(st, fails)

\* VPNManager.GetVPNServiceStatus
GetVPNServiceStatus(st, fails) == GetServiceStatus(st, fails)

\* -------------------------------------------------------------------------
\* TelegramBot: the command constants (part_001 lines 388-399)
\* -------------------------------------------------------------------------

CommandStart == <<"/", "s", "t", "a", "r", "t">>
CommandAuth == <<"/", "a", "u", "t", "h">>
CommandStatus == <<"U+1F50D", " ", "Q", "u", "i", "c", "k", " ", "S", "t", "a", "t", "u", "s">>
CommandEnableVPN == <<"U+1F510", " ", "R", "o", "u", "t", "e", " ", "v", "i", "a", " ", "V", "P", "N">>
CommandDisableVPN == <<"U+1F513", " ", "R", "o", "u", "t", "e", " ", "D", "i", "r", "e", "c", "t">>
CommandStartVPN == <<"U+1F7E2", " ", "S", "t", "a", "r", "t", " ", "V", "P", "N">>
CommandStopVPN == <<"U+1F534", " ", "S", "t", "o", "p", " ", "V", "P", "N">>
CommandServiceStatus == <<"U+1F50B", " ", "S", "e", "r", "v", "i", "c", "e", " ", "S", "t", "a", "t", "u", "s">>
CommandCancel == <<"U+274C", " ", "C", "a", "n", "c", "e", "l">>

\* -------------------------------------------------------------------------
\* TelegramBot: the authorization cache (part_001 lines 777-809)
\* -------------------------------------------------------------------------
\* users is the map authorizedUsers: a function whose domain is the set of
\* keys of the map.  Each operation holds userMutex from its first to its
\* last statement, so it is one step.

\* mutant: the status is stored whether or not the user has an entry
updateCachedStatusUnchecked(users, userID, status) ==
    [u \in DOMAIN users \cup {userID} |-> IF u = userID THEN status ELSE users[u]]

\* mutant: an entry that exists is kept as it is
authorizeUserKeepExisting(users, userID, initialStatus) ==
    [u \in DOMAIN users \cup {userID} |->
        IF u \in DOMAIN users THEN users[u] ELSE initialStatus]

\* mutant: every user ID counts as authorized
isUserAuthorizedAlways(users, userID) == TRUE

\* mutant: an entry whose status becomes unknown is deleted
updateCachedStatusDropUnknown(users, userID, status) ==
    IF userID \in DOMAIN users
    THEN IF status = VPNStatusUnknown
         THEN [u \in DOMAIN users \ {userID} |-> users[u]]
         ELSE [users EXCEPT ![userID] = status]
    ELSE users

\* TelegramBot.authorizeUser: tb.authorizedUsers[userID] = initialStatus
authorizeUser(users, userID, initialStatus) ==
    [u \in DOMAIN users \cup {userID} |->
        IF u = userID THEN initialStatus ELSE users[u]]

\* TelegramBot.isUserAuthorized
isUserAuthorized(users, userID) == userID \in DOMAIN users

\* TelegramBot.getCachedStatus
getCachedStatus(users, userID) ==
    IF userID \in DOMAIN users THEN users[userID] ELSE VPNStatusUnknown

\* TelegramBot.updateCachedStatus
updateCachedStatus(users, userID, status) ==
    IF userID \in DOMAIN users
    THEN [users EXCEPT ![userID] = status]
    ELSE users

\* -------------------------------------------------------------------------
\* TelegramBot: sending (part_001 lines 811-1009)
\* -------------------------------------------------------------------------
\* A chat request is logged in st.ops as [cmd |-> "chat", method |-> "send" or
\* "edit", what |-> the message, outcome |-> "ok" or "failed"].  The requests
\* that delete an earlier message, whose errors the code ignores, and the
\* maps of message IDs they are decided by (lastMessages, lastMsgType,
\* lastUserMsg) are not part of the model of the handlers; SpecSend follows
\* sendMessage attempt by attempt, with the entry of lastMessages it writes.

\* tb.bot.Send of a new message or of an edit
botSend(st, method, what) ==
    IF st.sendFails > 0
    THEN [st |-> [st EXCEPT !.sendFails = @ - 1,
                            !.ops = Append(@, [cmd |-> "chat", method |-> method,
                                               what |-> what,
                                               outcome |-> "failed"])],
          ok |-> FALSE]
    ELSE [st |-> [st EXCEPT !.ops = Append(@, [cmd |-> "chat", method |-> method,
                                               what |-> what, outcome |-> "ok"])],
          ok |-> TRUE]

maxRetries == 3

\* TelegramBot.sendMessage: the loop "for attempt := 1; attempt <= maxRetries"
RECURSIVE sendMessageFrom(_, _, _)
sendMessageFrom(st, what, attempt) ==
    IF attempt > maxRetries THEN st
    ELSE LET r == botSend(st, "send", what)
         IN  IF r.ok THEN r.st ELSE sendMessageFrom(r.st, what, attempt + 1)

sendMessage(st, what) == sendMessageFrom(st, what, 1)

\* TelegramBot.sendUnauthorizedMessage
sendUnauthorizedMessage(st) ==
    sendMessage(st, "Unauthorized access. Please authenticate first")

\* TelegramBot.sendProgressiveMessage: the ID of the message sent, 0 when the
\* send failed
sendProgressiveMessage(st, initialText) ==
    LET r == botSend(st, "send", initialText)
    IN  [st |-> r.st, msgID |-> IF r.ok THEN 1 ELSE 0]

\* TelegramBot.sendStatusMessageWithMarkdown: one send, not retried
sendStatusMessageWithMarkdown(st, text) == botSend(st, "send", text).st

\* TelegramBot.updateProgressiveMessage
updateProgressiveMessage(st, messageID, finalText) ==
    IF messageID = 0 THEN st
    ELSE LET r == botSend(st, "edit", finalText)
         IN  IF r.ok THEN r.st ELSE sendStatusMessageWithMarkdown(r.st, finalText)

\* TelegramBot.sendOrEditMessage
sendOrEditMessage(st, text) == sendStatusMessageWithMarkdown(st, text)

\* -------------------------------------------------------------------------
\* TelegramBot: the handlers (part_001 lines 443-732)
\* -------------------------------------------------------------------------
\* A message is [from |-> user ID, text |-> text]; the chat is the private
\* chat of the user.

\* TELEGRAM AUTH_CODE, as handed to NewTelegramBot
authCode == <<"k", "e", "y">>

Entered(st, handler) == [st EXCEPT !.handler = handler]

\* TelegramBot.handleStart
handleStart(st, message) ==
    sendMessage(Entered(st, "handleStart"), "VPN Commander Bot")

\* the statusText of handleAuth
authStatusText(currentStatus) ==
    IF currentStatus = VPNStatusEnabled
    THEN "Authentication successful! Current routing: VPN TUNNEL"
    ELSE IF currentStatus = VPNStatusDisabled
    THEN "Authentication successful! Current routing: DIRECT"
    ELSE "Authentication successful! Current routing: UNKNOWN"

\* mutant: a prefix of the configured code is accepted
codeMatchesPrefix(providedCode) == HasPrefix(authCode, providedCode)

\* providedCode == tb.authCode
codeMatches(providedCode) == providedCode = authCode

\* mutant: the correct code is refused when the status cannot be read
handleAuthNeedsStatus(st0, message, fails) ==
    LET st == Entered(st0, "handleAuth")
        args == Fields(message.text)
        g == GetStatus(st, fails)
    IN  IF Len(args) # 2
        THEN sendMessage(st, "Please provide the authentication code")
        ELSE IF codeMatches(args[2]) /\ g.err = ErrNil
        THEN sendMessage([g.st EXCEPT !.auth = authorizeUser(@, message.from,
                                                             g.status)],
                         authStatusText(g.status))
        ELSE sendMessage(st, "Invalid authentication code. Access denied.")

\* TelegramBot.handleAuth
handleAuth(st0, message, fails) ==
    LET st == Entered(st0, "handleAuth")
        args == Fields(message.text)
        g == GetStatus(st, fails)
        currentStatus == IF g.err # ErrNil THEN VPNStatusUnknown ELSE g.status
    IN  IF Len(args) # 2
        THEN sendMessage(st, "Please provide the authentication code")
        ELSE IF codeMatches(args[2])
        THEN sendMessage([g.st EXCEPT !.auth = authorizeUser(@, message.from,
                                                             currentStatus)],
                         authStatusText(currentStatus))
        ELSE sendMessage(st, "Invalid authentication code. Access denied.")

\* the responseText of handleStatus
routingStatusText(status) ==
    IF status = VPNStatusEnabled THEN "VPN ROUTING ACTIVE"
    ELSE IF status = VPNStatusDisabled THEN "DIRECT ROUTING ACTIVE"
    ELSE "ROUTING STATUS UNKNOWN"

\* mutant: a failed read is always reported as a failure
handleStatusNoFallback(st0, message, fails) ==
    LET st == Entered(st0, "handleStatus")
        userID == message.from
        p == sendProgressiveMessage(st, "Checking traffic routing status...")
        g == GetStatus(p.st, fails)
    IN  IF g.err # ErrNil
        THEN updateProgressiveMessage(g.st, p.msgID, "Status check failed")
        ELSE updateProgressiveMessage(
                 [g.st EXCEPT !.auth = updateCachedStatus(@, userID, g.status)],
                 p.msgID, routingStatusText(g.status))

\* TelegramBot.handleStatus
handleStatus(st0, message, fails) ==
    LET st == Entered(st0, "handleStatus")
        userID == message.from
        p == sendProgressiveMessage(st, "Checking traffic routing status...")
        cachedStatus == getCachedStatus(p.st.auth, userID)
        g == GetStatus(p.st, fails)
    IN  IF g.err # ErrNil
        THEN IF cachedStatus # VPNStatusUnknown
             THEN updateProgressiveMessage(g.st, p.msgID,
                                           routingStatusText(cachedStatus))
             ELSE updateProgressiveMessage(g.st, p.msgID, "Status check failed")
        ELSE updateProgressiveMessage(
                 [g.st EXCEPT !.auth = updateCachedStatus(@, userID, g.status)],
                 p.msgID, routingStatusText(g.status))

\* TelegramBot.handleEnableVPN
handleEnableVPN(st0, message, fails) ==
    LET st == Entered(st0, "handleEnableVPN")
        e == EnableVPN(st, fails)
    IN  IF e.err # ErrNil
        THEN sendMessage(e.st, "Failed to enable VPN")
        ELSE sendOrEditMessage(
                 [e.st EXCEPT !.auth = updateCachedStatus(@, message.from,
                                                          VPNStatusEnabled)],
                 "ROUTING SWITCHED TO VPN")

\* mutant: a disable refreshes the entry of every authorized user
handleDisableVPNRefreshesAll(st0, message, fails) ==
    LET st == Entered(st0, "handleDisableVPN")
        e == DisableVPN(st, fails)
    IN  IF e.err # ErrNil
        THEN sendMessage(e.st, "Failed to disable VPN")
        ELSE sendOrEditMessage(
                 [e.st EXCEPT !.auth = [u \in DOMAIN @ |-> VPNStatusDisabled]],
                 "ROUTING SWITCHED TO DIRECT")

\* TelegramBot.handleDisableVPN
handleDisableVPN(st0, message, fails) ==
    LET st == Entered(st0, "handleDisableVPN")
        e == DisableVPN(st, fails)
    IN  IF e.err # ErrNil
        THEN sendMessage(e.st, "Failed to disable VPN")
        ELSE sendOrEditMessage(
                 [e.st EXCEPT !.auth = updateCachedStatus(@, message.from,
                                                          VPNStatusDisabled)],
                 "ROUTING SWITCHED TO DIRECT")

\* mutant: a started service is recorded as enabled routing
handleStartVPNMarksEnabled(st0, message, fails) ==
    LET st == Entered(st0, "handleStartVPN")
        e == StartVPNService(st, fails)
    IN  IF e.err # ErrNil
        THEN sendMessage(e.st, "Failed to start service")
        ELSE sendOrEditMessage(
                 [e.st EXCEPT !.auth = updateCachedStatus(@, message.from,
                                                          VPNStatusEnabled)],
                 "VPN SERVICE STARTED")

\* TelegramBot.handleStartVPN
handleStartVPN(st0, message, fails) ==
    LET st == Entered(st0, "handleStartVPN")
        e == StartVPNService(st, fails)
    IN  IF e.err # ErrNil
        THEN sendMessage(e.st, "Failed to start service")
        ELSE sendOrEditMessage(e.st, "VPN SERVICE STARTED")

\* TelegramBot.handleStopVPN
handleStopVPN(st0, message, fails) ==
    LET st == Entered(st0, "handleStopVPN")
        e == StopVPNService(st, fails)
    IN  IF e.err # ErrNil
        THEN sendMessage(e.st, "Failed to stop service")
        ELSE sendOrEditMessage(e.st, "VPN SERVICE STOPPED")

\* the words of "xkeen -status"
NotRunningPhrase == <<"ne", " ", "zapushchen">>
RunningPhrase == <<"zapushchen">>

\* mutant: the "running" phrase is looked for first
serviceStatusTextRunningFirst(status) ==
    LET cleanStatus ==
            TrimSpace(RemoveAll(RemoveAll(RemoveAll(RemoveAll(status,
                <<"ESC", "[31m">>), <<"ESC", "[0m">>), <<"[31m">>), <<"[0m">>))
    IN  IF Contains(cleanStatus, RunningPhrase) \/ cleanStatus # <<>>
        THEN "VPN SERVICE RUNNING"
        ELSE IF Contains(cleanStatus, NotRunningPhrase) THEN "VPN SERVICE STOPPED"
        ELSE "VPN SERVICE STATUS UNKNOWN"

\* the cleaning and the decision of handleServiceStatus
serviceStatusText(status) ==
    LET cleanStatus ==
            TrimSpace(RemoveAll(RemoveAll(RemoveAll(RemoveAll(status,
                <<"ESC", "[31m">>), <<"ESC", "[0m">>), <<"[31m">>), <<"[0m">>))
    IN  IF Contains(cleanStatus, NotRunningPhrase) THEN "VPN SERVICE STOPPED"
        ELSE IF Contains(cleanStatus, RunningPhrase) \/ cleanStatus # <<>>
        THEN "VPN SERVICE RUNNING"
        ELSE "VPN SERVICE STATUS UNKNOWN"

\* TelegramBot.handleServiceStatus
handleServiceStatus(st0, message, fails) ==
    LET st == Entered(st0, "handleServiceStatus")
        p == sendProgressiveMessage(st, "Checking VPN daemon status...")
        g == GetVPNServiceStatus(p.st, fails)
    IN  IF g.err # ErrNil
        THEN updateProgressiveMessage(g.st, p.msgID, "Service status check failed")
        ELSE updateProgressiveMessage(g.st, p.msgID, serviceStatusText(g.output))

\* TelegramBot.handleAuthorizedCommand
handleAuthorizedCommand(st, message, fails) ==
    IF message.text = CommandStatus THEN handleStatus(st, message, fails)
    ELSE IF message.text = CommandEnableVPN THEN handleEnableVPN(st, message, fails)
    ELSE IF message.text = CommandDisableVPN THEN handleDisableVPN(st, message, fails)
    ELSE IF message.text = CommandStartVPN THEN handleStartVPN(st, message, fails)
    ELSE IF message.text = CommandStopVPN THEN handleStopVPN(st, message, fails)
    ELSE IF message.text = CommandServiceStatus
    THEN handleServiceStatus(st, message, fails)
    ELSE sendMessage(Entered(st, "handleAuthorizedCommand"),
                     "Unknown command. Please use the keyboard buttons.")

\* mutant: the authorization is checked before the "/auth" prefix
handleUpdateAuthorizedFirst(st, message, fails) ==
    IF HasPrefix(message.text, CommandStart) THEN handleStart(st, message)
    ELSE IF isUserAuthorized(st.auth, message.from)
    THEN handleAuthorizedCommand(st, message, fails)
    ELSE IF HasPrefix(message.text, CommandAuth) THEN handleAuth(st, message, fails)
    ELSE sendUnauthorizedMessage(Entered(st, "sendUnauthorizedMessage"))

\* TelegramBot.handleUpdate, for an update that carries a message
handleUpdate(st, message, fails) ==
    IF HasPrefix(message.text, CommandStart) THEN handleStart(st, message)
    ELSE IF HasPrefix(message.text, CommandAuth) THEN handleAuth(st, message, fails)
    ELSE IF isUserAuthorized(st.auth, message.from)
    THEN handleAuthorizedCommand(st, message, fails)
    ELSE sendUnauthorizedMessage(Entered(st, "sendUnauthorizedMessage"))

\* -------------------------------------------------------------------------
\* SpecRule: isTargetRule applied to every rule of a bounded family
\* -------------------------------------------------------------------------

TagNames == {"redirect", "tproxy", "socks"}

Networks == {"tcp,udp", "tcp", "udp,tcp", "TCP,UDP", ""}

OutboundTags == {"vless-reality", "direct", "block"}

RuleInputs ==
    {Rule(t, in, out, net, dom, ip, port, proto) :
        t \in {"", "field"},
        in \in SeqsUpTo(TagNames, MaxTags),
        out \in OutboundTags,
        net \in Networks,
        dom \in {NilValue, ListValue(<<"geosite:private">>)},
        ip \in {NilValue, ListValue(<<"10.0.0.0/8">>)},
        port \in {"", "443"},
        proto \in {NilValue, ListValue(<<"bittorrent">>)}}

\* NewVPNManager: configPath
DefaultConfigPath == "/opt/etc/xray/configs/05_routing.json"

\* customPath of TestSetConfigPath
customPath == "/custom/path/config.json"

\* the paths of the router that hold a file
Paths == {DefaultConfigPath, customPath}

\* the variables of the router and of VPNManager before anything ran: the
\* file at the default path is one of files
InitRouter(files) ==
    /\ remoteFile \in {[p \in Paths |-> IF p = DefaultConfigPath THEN f
                                                               ELSE Garbage] :
                        f \in files}
    /\ configPath = DefaultConfigPath
    /\ client = "nil"
    /\ connAlive = FALSE
    /\ hostUp \in BOOLEAN
    /\ ops = <<>>
    /\ vmLast = [op |-> "none", status |-> VPNStatusUnknown, err |-> ErrNil]

\* Start waits in its select for the next update
Idle == [idle |-> TRUE, user |-> 0, text |-> <<>>, handler |-> "none"]

\* NewTelegramBot: authorizedUsers is an empty map
InitCache ==
    /\ authorizedUsers = Empty
    /\ everAuthorized = {}
    /\ cacheLast = [op |-> "none", user |-> 0, status |-> VPNStatusUnknown,
                    exists |-> FALSE]
    /\ botLast = Idle

\* main started without XRAY_CONFIG_PATH; nothing waits in the channel
Goroutines == 1..NumGoroutines

\* a goroutine that is in no operation of the cache
IdleGoroutine ==
    [pc |-> "idle", op |-> "none", status |-> VPNStatusUnknown, inAuth |-> FALSE]

InitHealthOff == health = [phase |-> "off", check |-> -1, probe |-> "none"]

InitMuFree ==
    mu = [writer |-> 0, readers |-> {}, g |-> [i \in Goroutines |-> IdleGoroutine]]

\* a goroutine that is not inside ExecuteCommand and has not called it
IdleCaller ==
    [pc |-> "idle", command |-> "none", dialed |-> 0, session |-> 0,
     output |-> <<>>, err |-> "nil"]

\* NewSSHClient: s.client is nil, no connection and no session is open
InitExecNew ==
    exec = [client |-> 0, open |-> {}, channels |-> Empty,
            g |-> [i \in Goroutines |-> IdleCaller]]

\* NewTelegramBot: lastMessages is an empty map; nobody is in sendMessage
InitSendIdle ==
    send = [pc |-> "idle", chat |-> 0, attempt |-> 0, calls |-> 0,
            last |-> "none", sentMsg |-> 0, lastMessages |-> Empty]

\* no process of main is looked at, nobody is at the mutex, in the executor
\* or in sendMessage
InitAux ==
    /\ InitHealthOff
    /\ InitMuFree
    /\ InitExecNew
    /\ InitSendIdle

InitIdle ==
    /\ InitAux
    /\ environ = [XRAY_CONFIG_PATH |-> ""]
    /\ svcLast = [called |-> FALSE, output |-> <<>>]
    /\ updates = <<>>

InitRule ==
    /\ InitIdle
    /\ rule \in RuleInputs
    /\ ruleResult = [called |-> FALSE]
    /\ InitRouter({Garbage})
    /\ InitCache

CallIsTargetRule ==
    /\ ~ruleResult.called
    /\ ruleResult' = [called |-> TRUE, value |-> isTargetRule(rule)]
    /\ UNCHANGED <<rule, sshVars, vmLast, cacheVars, idleVars>>

NextRule == CallIsTargetRule

SpecRule == InitRule /\ [][NextRule]_vars

\* -------------------------------------------------------------------------
\* SpecVM: the operations of VPNManager on a family of remote files
\* -------------------------------------------------------------------------

\* the rules of the initial remote files, as JSON objects
RawRules ==
    {[type |-> "field", inboundTag |-> in, network |-> "tcp,udp",
      outboundTag |-> out] :
        in \in {<<"redirect", "tproxy">>, <<"redirect">>},
        out \in OutboundTags}
    \cup {[type |-> "field", inboundTag |-> <<"tproxy", "redirect">>,
           network |-> "tcp,udp"],
          [type |-> "field", domain |-> <<"geosite:private">>,
           outboundTag |-> "direct", balancerTag |-> "lb"]}

\* the initial remote files: not JSON, JSON without a routing section, a
\* routing section without rules, and routing sections of up to MaxRules
\* rules, alone or beside other keys
InitialFiles ==
    {Garbage, Json(Empty), Json([log |-> "warning"]),
     Json([routing |-> Empty]),
     Json([routing |-> [rules |-> <<>>]]),
     Json([routing |-> [domainStrategy |-> "IPIfNonMatch"]])}
    \cup {Json([routing |-> [rules |-> rs]]) :
            rs \in SeqsUpTo(RawRules, MaxRules) \ {<<>>}}
    \cup {Json([log |-> "warning",
                routing |-> [domainStrategy |-> "IPIfNonMatch", rules |-> rs]]) :
            rs \in SeqsUpTo(RawRules, MaxRules) \ {<<>>}}

\* the record an operation starts from
St == [client |-> client, connAlive |-> connAlive, file |-> remoteFile,
       configPath |-> configPath, ops |-> <<>>, svcOut |-> <<>>, sendFails |-> 0,
       auth |-> authorizedUsers, handler |-> "none"]

\* the router and the SSH client after an operation that ended in st
Commit(st) ==
    /\ client' = st.client
    /\ connAlive' = st.connAlive
    /\ remoteFile' = st.file
    /\ ops' = st.ops
    /\ UNCHANGED hostUp

InitVM ==
    /\ InitIdle
    /\ InitRouter(InitialFiles)
    /\ rule = Rule("", <<>>, "", "", NilValue, NilValue, "", NilValue)
    /\ ruleResult = [called |-> FALSE]
    /\ InitCache

VMGetStatus ==
    \E fails \in SUBSET {"cat"} :
        LET r == GetStatus(St, fails)
        IN  /\ Commit(r.st)
            /\ vmLast' = [op |-> "GetStatus", status |-> r.status, err |-> r.err]
            /\ UNCHANGED <<ruleVars, idleVars, cacheVars>>

VMEnableVPN ==
    \E fails \in SUBSET {"cat", "cp", "write", "restart"} :
        LET r == EnableVPN(St, fails)
        IN  /\ Commit(r.st)
            /\ vmLast' = [op |-> "EnableVPN", status |-> VPNStatusUnknown,
                          err |-> r.err]
            /\ UNCHANGED <<ruleVars, idleVars, cacheVars>>

VMDisableVPN ==
    \E fails \in SUBSET {"cat", "cp", "write", "restart"} :
        LET r == DisableVPN(St, fails)
        IN  /\ Commit(r.st)
            /\ vmLast' = [op |-> "DisableVPN", status |-> VPNStatusUnknown,
                          err |-> r.err]
            /\ UNCHANGED <<ruleVars, idleVars, cacheVars>>

VMValidateConfiguration ==
    \E fails \in SUBSET {"cat"} :
        LET r == ValidateConfiguration(St, fails)
        IN  /\ Commit(r.st)
            /\ vmLast' = [op |-> "ValidateConfiguration",
                          status |-> VPNStatusUnknown, err |-> r.err]
            /\ UNCHANGED <<ruleVars, idleVars, cacheVars>>

\* the environment: the router goes away, taking the held connection with it
LinkDown ==
    /\ botLast.idle
    /\ hostUp
    /\ hostUp' = FALSE
    /\ connAlive' = FALSE
    /\ UNCHANGED <<remoteFile, client, ops, vmLast, ruleVars, idleVars, cacheVars>>

\* the environment: the router is reachable again
LinkUp ==
    /\ botLast.idle
    /\ ~hostUp
    /\ hostUp' = TRUE
    /\ UNCHANGED <<remoteFile, client, connAlive, ops, vmLast, ruleVars, idleVars, cacheVars>>

\* the environment: the held connection breaks while the router stays up
ConnectionLost ==
    /\ botLast.idle
    /\ connAlive
    /\ connAlive' = FALSE
    /\ UNCHANGED <<remoteFile, client, hostUp, ops, vmLast, ruleVars, idleVars, cacheVars>>

NextVM ==
    \/ VMGetStatus
    \/ VMEnableVPN
    \/ VMDisableVPN
    \/ VMValidateConfiguration
    \/ LinkDown
    \/ LinkUp
    \/ ConnectionLost

SpecVM == InitVM /\ [][NextVM]_vars


\* -------------------------------------------------------------------------
\* SpecCache: the four operations of the authorization cache, called in any
\* order with any user ID and any status
\* -------------------------------------------------------------------------

Users == 1..NumUsers

InitCacheSpec ==
    /\ InitIdle
    /\ InitCache
    /\ InitRouter({Garbage})
    /\ rule = Rule("", <<>>, "", "", NilValue, NilValue, "", NilValue)
    /\ ruleResult = [called |-> FALSE]

CacheAuthorizeUser ==
    \E u \in Users, s \in VPNStatuses :
        /\ authorizedUsers' = authorizeUser(authorizedUsers, u, s)
        /\ everAuthorized' = everAuthorized \cup {u}
        /\ cacheLast' = [op |-> "authorizeUser", user |-> u, status |-> s,
                         exists |-> FALSE]
        /\ UNCHANGED <<botLast, ruleVars, idleVars, sshVars, vmLast>>

CacheIsUserAuthorized ==
    \E u \in Users :
        /\ cacheLast' = [op |-> "isUserAuthorized", user |-> u,
                         status |-> VPNStatusUnknown,
                         exists |-> isUserAuthorized(authorizedUsers, u)]
        /\ UNCHANGED <<authorizedUsers, everAuthorized, botLast, ruleVars, idleVars, sshVars, vmLast>>

CacheGetCachedStatus ==
    \E u \in Users :
        /\ cacheLast' = [op |-> "getCachedStatus", user |-> u,
                         status |-> getCachedStatus(authorizedUsers, u),
                         exists |-> FALSE]
        /\ UNCHANGED <<authorizedUsers, everAuthorized, botLast, ruleVars, idleVars, sshVars, vmLast>>

CacheUpdateCachedStatus ==
    \E u \in Users, s \in VPNStatuses :
        /\ authorizedUsers' = updateCachedStatus(authorizedUsers, u, s)
        /\ cacheLast' = [op |-> "updateCachedStatus", user |-> u, status |-> s,
                         exists |-> FALSE]
        /\ UNCHANGED <<everAuthorized, botLast, ruleVars, idleVars, sshVars, vmLast>>

NextCache ==
    \/ CacheAuthorizeUser
    \/ CacheIsUserAuthorized
    \/ CacheGetCachedStatus
    \/ CacheUpdateCachedStatus

SpecCache == InitCacheSpec /\ [][NextCache]_vars

\* -------------------------------------------------------------------------
\* Spec: the bot.  Start hands one update at a time to handleUpdate
\* (part_001 lines 431-440), so an update is handled in one step
\* -------------------------------------------------------------------------

Space == <<" ">>

\* the texts of the messages users send
Texts ==
    {CommandStart,
     CommandStart \o Space \o CommandAuth \o Space \o authCode,
     CommandAuth,
     CommandAuth \o Space \o authCode,
     CommandAuth \o Space \o <<"k", "e">>,
     CommandAuth \o Space \o <<"K", "E", "Y">>,
     CommandAuth \o Space \o authCode \o Space \o <<"x">>,
     CommandAuth \o <<"o", "r">> \o Space \o authCode,
     Space \o CommandAuth \o Space \o authCode,
     authCode,
     <<>>,
     <<"h", "i">>,
     CommandStatus, CommandEnableVPN, CommandDisableVPN,
     CommandStartVPN, CommandStopVPN, CommandServiceStatus, CommandCancel}

\* what "xkeen -status" may print
ServiceOutputs ==
    {<<>>,
     <<"Proxy", " ", "zapushchen", "\n">>,
     <<"ESC", "[31m", "Proxy", " ", "ne", " ", "zapushchen", "ESC", "[0m", "\n">>,
     <<"ESC", "[31m", "ps: ", "applet not found", "ESC", "[0m", "\n",
       "Proxy", " ", "ne", " ", "zapushchen", "\n">>,
     <<"ps: ", "applet not found", "\n">>,
     <<"ESC", "[31m", "ESC", "[0m", "\n">>}

\* the remote commands the handling of a text can issue: the commands whose
\* failure the environment chooses
failureChoices(text) ==
    IF text \in {CommandEnableVPN, CommandDisableVPN}
    THEN {"cat", "cp", "write", "restart"}
    ELSE IF text = CommandStartVPN THEN {"start"}
    ELSE IF text = CommandStopVPN THEN {"stop"}
    ELSE IF text = CommandServiceStatus THEN {"status"}
    ELSE IF text = CommandStatus \/ HasPrefix(text, CommandAuth) THEN {"cat"}
    ELSE {}

\* the remote files the bot starts with
BotFiles ==
    {Garbage,
     Json([routing |-> [rules |->
        <<[inboundTag |-> <<"redirect", "tproxy">>, network |-> "tcp,udp",
           outboundTag |-> "direct"]>>]]),
     Json([routing |-> [domainStrategy |-> "IPIfNonMatch", rules |->
        <<[type |-> "field", domain |-> <<"geosite:private">>,
           outboundTag |-> "direct"],
          [type |-> "field", inboundTag |-> <<"redirect", "tproxy">>,
           network |-> "tcp,udp", outboundTag |-> "vless-reality"]>>]]),
     Json([routing |-> [rules |->
        <<[type |-> "field", inboundTag |-> <<"redirect", "tproxy">>,
           network |-> "tcp,udp", outboundTag |-> "block"],
          [type |-> "field", inboundTag |-> <<"redirect">>,
           network |-> "tcp,udp", outboundTag |-> "direct"]>>]])}

Init ==
    /\ InitIdle
    /\ InitRouter(BotFiles)
    /\ InitCache
    /\ rule = Rule("", <<>>, "", "", NilValue, NilValue, "", NilValue)
    /\ ruleResult = [called |-> FALSE]

\* Start receives an update that carries a message and calls handleUpdate
BotHandleUpdate ==
    /\ botLast.idle
    /\ \E u \in Users, text \in Texts :
       \E fails \in SUBSET failureChoices(text), n \in 0..MaxSendFails,
          out \in IF text = CommandServiceStatus THEN ServiceOutputs ELSE {<<>>} :
            LET st == handleUpdate([St EXCEPT !.sendFails = n, !.svcOut = out],
                                   [from |-> u, text |-> text], fails)
            IN  /\ Commit(st)
                /\ authorizedUsers' = st.auth
                /\ everAuthorized' = everAuthorized \cup DOMAIN st.auth
                /\ botLast' = [idle |-> FALSE, user |-> u, text |-> text,
                               handler |-> st.handler]
                /\ UNCHANGED <<ruleVars, idleVars, vmLast, cacheLast>>

\* Start receives an update without a message: handleUpdate returns at once
BotIgnoreUpdate ==
    /\ botLast.idle
    /\ botLast' = [Idle EXCEPT !.idle = FALSE]
    /\ ops' = <<>>
    /\ UNCHANGED <<remoteFile, client, connAlive, hostUp, ruleVars, idleVars, vmLast,
                   authorizedUsers, everAuthorized, cacheLast>>

\* handleUpdate has returned: Start is back in its select
BotNextUpdate ==
    /\ ~botLast.idle
    /\ botLast' = Idle
    /\ ops' = <<>>
    /\ UNCHANGED <<remoteFile, client, connAlive, hostUp, ruleVars, idleVars, vmLast,
                   authorizedUsers, everAuthorized, cacheLast>>

Next ==
    \/ BotHandleUpdate
    \/ BotIgnoreUpdate
    \/ BotNextUpdate
    \/ LinkDown
    \/ LinkUp
    \/ ConnectionLost

Spec == Init /\ [][Next]_vars

\* -------------------------------------------------------------------------
\* SpecPath: VPNManager with SetConfigPath and GetConfigPath, on a router
\* that holds a file at each path
\* -------------------------------------------------------------------------

\* the files at the paths of the router
PathFiles ==
    {Garbage,
     Json([routing |-> [rules |->
        <<[inboundTag |-> <<"redirect", "tproxy">>, network |-> "tcp,udp",
           outboundTag |-> "direct"]>>]]),
     Json([routing |-> [rules |->
        <<[type |-> "field", inboundTag |-> <<"redirect">>,
           network |-> "tcp,udp", outboundTag |-> "direct"],
          [type |-> "field", inboundTag |-> <<"redirect", "tproxy">>,
           network |-> "tcp,udp", outboundTag |-> "vless-reality"]>>]])}

InitPath ==
    /\ InitIdle
    /\ InitCache
    /\ rule = Rule("", <<>>, "", "", NilValue, NilValue, "", NilValue)
    /\ ruleResult = [called |-> FALSE]
    /\ remoteFile \in [Paths -> PathFiles]
    /\ configPath = DefaultConfigPath
    /\ client = "nil"
    /\ connAlive = FALSE
    /\ hostUp = TRUE
    /\ ops = <<>>
    /\ vmLast = [op |-> "none", status |-> VPNStatusUnknown, err |-> ErrNil]

PathSetConfigPath ==
    \E path \in Paths :
        /\ configPath' = SetConfigPath(St, path).configPath
        /\ vmLast' = [op |-> "SetConfigPath", status |-> VPNStatusUnknown,
                      err |-> ErrNil, path |-> path]
        /\ ops' = <<>>
        /\ UNCHANGED <<remoteFile, client, connAlive, hostUp, ruleVars,
                       cacheVars, environ, svcLast, updates, auxVars>>

PathGetConfigPath ==
    /\ vmLast' = [op |-> "GetConfigPath", status |-> VPNStatusUnknown,
                  err |-> ErrNil, path |-> GetConfigPath(St)]
    /\ ops' = <<>>
    /\ UNCHANGED <<remoteFile, client, connAlive, hostUp, ruleVars, cacheVars,
                   idleVars>>

NextPath ==
    \/ PathSetConfigPath
    \/ PathGetConfigPath
    \/ VMGetStatus
    \/ VMEnableVPN
    \/ VMDisableVPN
    \/ VMValidateConfiguration

SpecPath == InitPath /\ [][NextPath]_vars

\* -------------------------------------------------------------------------
\* SpecSSH: the callers of SSHClient.ExecuteCommand never stop calling, while
\* the connection and the router come and go
\* -------------------------------------------------------------------------

\* the commands the methods of SSHClient hand to ExecuteCommand
SSHCommands ==
    {[kind |-> "cat", path |-> DefaultConfigPath],
     [kind |-> "cp", path |-> DefaultConfigPath]}
    \cup {[kind |-> "write", path |-> DefaultConfigPath, content |-> f] :
            f \in PathFiles}
    \cup {[kind |-> k] : k \in {"restart", "start", "stop", "status"}}

InitSSH ==
    /\ InitIdle
    /\ InitCache
    /\ rule = Rule("", <<>>, "", "", NilValue, NilValue, "", NilValue)
    /\ ruleResult = [called |-> FALSE]
    /\ remoteFile \in {[p \in Paths |-> f] : f \in PathFiles}
    /\ configPath = DefaultConfigPath
    /\ client = "nil"
    /\ connAlive = FALSE
    /\ hostUp \in BOOLEAN
    /\ ops = <<>>
    /\ vmLast = [op |-> "none", status |-> VPNStatusUnknown, err |-> ErrNil]

SSHExecuteCommand ==
    \E command \in SSHCommands :
      \E fails \in SUBSET {command.kind} :
        LET r == ExecuteCommand(St, command, fails)
        IN  /\ Commit(r.st)
            /\ vmLast' = [op |-> "ExecuteCommand", status |-> VPNStatusUnknown,
                          err |-> r.err]
            /\ UNCHANGED <<ruleVars, idleVars, cacheVars>>

NextSSH ==
    \/ SSHExecuteCommand
    \/ LinkDown
    \/ LinkUp
    \/ ConnectionLost

SpecSSH == InitSSH /\ [][NextSSH]_vars /\ WF_vars(SSHExecuteCommand)

\* -------------------------------------------------------------------------
\* SpecLoop: the loop of TelegramBot.Start over the channel of updates, with
\* remote commands that may never return
\* -------------------------------------------------------------------------

MaxPending == 2

LoopTexts ==
    {CommandAuth \o Space \o authCode, CommandStatus, CommandStopVPN,
     <<"h", "i">>}

\* session.CombinedOutput has not returned
NeverReturns == "never returns"

\* the first remote command in the log of a handler, 0 when it issues none
FirstRemote(log) ==
    LET remote == {i \in DOMAIN log : log[i].cmd \notin {"chat", "connect"}}
    IN  IF remote = {} THEN 0
        ELSE CHOOSE i \in remote : \A j \in remote : i <= j

\* Start has taken an update from the channel and not yet called handleUpdate
Received == ~botLast.idle /\ ops = <<>>

\* handleUpdate is inside a remote command that has not returned
Stuck ==
    /\ ~botLast.idle
    /\ ops # <<>>
    /\ ops[Len(ops)].outcome = NeverReturns

InitLoop ==
    /\ InitIdle
    /\ InitCache
    /\ rule = Rule("", <<>>, "", "", NilValue, NilValue, "", NilValue)
    /\ ruleResult = [called |-> FALSE]
    /\ remoteFile \in {[p \in Paths |-> f] :
                        f \in {g \in PathFiles : g.valid /\
                                   Len(g.obj["routing"]["rules"]) = 2}}
    /\ configPath = DefaultConfigPath
    /\ client = "nil"
    /\ connAlive = FALSE
    /\ hostUp = TRUE
    /\ ops = <<>>
    /\ vmLast = [op |-> "none", status |-> VPNStatusUnknown, err |-> ErrNil]

\* the library's poller puts an update into the channel
LoopArrive ==
    /\ Len(updates) < MaxPending
    /\ \E u \in Users, text \in LoopTexts :
        updates' = Append(updates, [from |-> u, text |-> text])
    /\ UNCHANGED <<remoteFile, client, connAlive, hostUp, ops, vmLast,
                   ruleVars, cacheVars, configPath, environ, svcLast,
                   auxVars>>

\* "case update := <-updates": Start, in its select, takes the next update
LoopReceive ==
    /\ botLast.idle
    /\ updates # <<>>
    /\ botLast' = [idle |-> FALSE, user |-> Head(updates).from,
                   text |-> Head(updates).text, handler |-> "none"]
    /\ updates' = Tail(updates)
    /\ ops' = <<>>
    /\ UNCHANGED <<remoteFile, client, connAlive, hostUp, vmLast, ruleVars,
                   authorizedUsers, everAuthorized, cacheLast, configPath,
                   environ, svcLast, auxVars>>

\* "tb.handleUpdate(update)" runs and returns: Start is back in its select
LoopHandleUpdate ==
    /\ Received
    /\ LET st == handleUpdate(St, [from |-> botLast.user,
                                   text |-> botLast.text], {})
       IN  /\ Commit(st)
           /\ authorizedUsers' = st.auth
           /\ everAuthorized' = everAuthorized \cup DOMAIN st.auth
           /\ botLast' = [botLast EXCEPT !.idle = TRUE,
                                         !.handler = st.handler]
           /\ UNCHANGED <<ruleVars, idleVars, vmLast, cacheLast>>

\* a handler whose first remote command never returns: what it did before
\* that command is done, and the command is running
stuckInFirstRemote(st0, st) ==
    LET k == FirstRemote(st.ops)
    IN  IF k = 0 THEN st
        ELSE [st0 EXCEPT !.client = st.client,
                         !.connAlive = st.connAlive,
                         !.handler = st.handler,
                         !.ops = Append(SubSeq(st.ops, 1, k - 1),
                                        [cmd |-> st.ops[k].cmd,
                                         outcome |-> NeverReturns])]

\* "tb.handleUpdate(update)" runs and stays in session.CombinedOutput of the
\* first remote command of its handler
LoopHandleUpdateStuck ==
    /\ Received
    /\ ~HasPrefix(botLast.text, CommandAuth)
    /\ LET st == stuckInFirstRemote(St,
                    handleUpdate(St, [from |-> botLast.user,
                                      text |-> botLast.text], {}))
       IN  /\ Commit(st)
           /\ botLast' = [botLast EXCEPT !.handler = st.handler]
           /\ UNCHANGED <<ruleVars, idleVars, vmLast, authorizedUsers,
                          everAuthorized, cacheLast>>
    /\ ops' # <<>>
    /\ ops'[Len(ops')].outcome = NeverReturns

NextLoop ==
    \/ LoopArrive
    \/ LoopReceive
    \/ LoopHandleUpdate
    \/ LoopHandleUpdateStuck

\* Start, whenever it is in its select, takes an update that waits
SpecLoop == InitLoop /\ [][NextLoop]_vars /\ WF_vars(LoopReceive)

\* -------------------------------------------------------------------------
\* SpecHealth: the process of main, "vpn-commander --health-check" and the
\* /health endpoint (main.go lines 17-179)
\* -------------------------------------------------------------------------

requiredVars ==
    <<"TELEGRAM_BOT_TOKEN", "AUTH_CODE", "ROUTER_HOST", "ROUTER_USERNAME",
      "ROUTER_PASSWORD">>

\* mutant: the loop over requiredVars stops before the last variable
runHealthCheckAllButLast(env) ==
    IF \E i \in 1..(Len(requiredVars) - 1) : env[requiredVars[i]] = ""
    THEN 1 ELSE 0

\* runHealthCheck: the exit code of "vpn-commander --health-check";
\* os.Getenv of a variable that is not set is ""
runHealthCheck(env) ==
    IF \E i \in DOMAIN requiredVars : env[requiredVars[i]] = "" THEN 1 ELSE 0

\* main's own validation of the required variables, before it starts the
\* health server: logger.Fatalf at the first one that is empty
mainValidates(env) ==
    \A i \in DOMAIN requiredVars : env[requiredVars[i]] # ""

InitHealth ==
    /\ InitHealthOff
    /\ InitMuFree
    /\ InitExecNew
    /\ InitSendIdle
    /\ environ \in [{requiredVars[i] : i \in DOMAIN requiredVars}
                        \cup {"XRAY_CONFIG_PATH"} -> {"", "v"}]
    /\ svcLast = [called |-> FALSE, output |-> <<>>]
    /\ updates = <<>>
    /\ InitRouter({Garbage})
    /\ InitCache
    /\ rule = Rule("", <<>>, "", "", NilValue, NilValue, "", NilValue)
    /\ ruleResult = [called |-> FALSE]

\* main runs: it exits when a required variable is empty or when the SSH
\* client or the bot cannot be initialized, and else serves /health
HealthMain ==
    /\ health.phase = "off"
    /\ \E initialized \in BOOLEAN :
        health' = [health EXCEPT !.phase =
                      IF mainValidates(environ) /\ initialized
                      THEN "running" ELSE "exited"]
    /\ UNCHANGED <<sshVars, vmLast, ruleVars, cacheVars, configPath, environ,
                   svcLast, updates, mu, exec, send>>

\* "vpn-commander --health-check" is run in the same environment
HealthRunHealthCheck ==
    /\ health' = [health EXCEPT !.check = runHealthCheck(environ)]
    /\ UNCHANGED <<sshVars, vmLast, ruleVars, cacheVars, configPath, environ,
                   svcLast, updates, mu, exec, send>>

\* GET /health: the handler answers 200 OK whenever the server runs
HealthProbe ==
    /\ health' = [health EXCEPT !.probe =
                      IF health.phase = "running" THEN "OK" ELSE "refused"]
    /\ UNCHANGED <<sshVars, vmLast, ruleVars, cacheVars, configPath, environ,
                   svcLast, updates, mu, exec, send>>

NextHealth ==
    \/ HealthMain
    \/ HealthRunHealthCheck
    \/ HealthProbe

SpecHealth == InitHealth /\ [][NextHealth]_vars

\* -------------------------------------------------------------------------
\* SpecLock: goroutines in the four cache operations and in the successful
\* branch of handleAuth, at TelegramBot.userMutex (part_001 lines 509-517
\* and 777-809).  A goroutine is at "acquire" before Lock/RLock returns, at
\* "body" inside the critical section, at "release" before the deferred
\* Unlock/RUnlock, at "getStatus" inside vpnManager.GetStatus and at "send"
\* inside sendMessage.
\* -------------------------------------------------------------------------

CacheOps ==
    {"authorizeUser", "isUserAuthorized", "getCachedStatus", "updateCachedStatus"}

\* the user ID all the calls are about
LockUser == 1

\* mutant: updateCachedStatus takes the lock in shared mode
lockModeUpdateShared(op) ==
    IF op = "authorizeUser" THEN "Lock" ELSE "RLock"

\* the first statement of each operation: userMutex.Lock() or userMutex.RLock()
lockMode(op) ==
    IF op \in {"authorizeUser", "updateCachedStatus"} THEN "Lock" ELSE "RLock"

InitLock ==
    /\ InitHealthOff
    /\ InitMuFree
    /\ InitExecNew
    /\ InitSendIdle
    /\ environ = [XRAY_CONFIG_PATH |-> ""]
    /\ svcLast = [called |-> FALSE, output |-> <<>>]
    /\ updates = <<>>
    /\ InitCache
    /\ InitRouter({Garbage})
    /\ hostUp
    /\ rule = Rule("", <<>>, "", "", NilValue, NilValue, "", NilValue)
    /\ ruleResult = [called |-> FALSE]

LockUnchanged ==
    UNCHANGED <<sshVars, vmLast, ruleVars, cacheLast, botLast, configPath,
                environ, svcLast, updates, health, exec, send>>

\* a goroutine calls one of the four operations
LockCall ==
    \E g \in Goroutines, op \in CacheOps :
      \E s \in IF op \in {"authorizeUser", "updateCachedStatus"}
               THEN VPNStatuses ELSE {VPNStatusUnknown} :
        /\ mu.g[g].pc = "idle"
        /\ mu' = [mu EXCEPT !.g[g] = [pc |-> "acquire", op |-> op,
                                      status |-> s, inAuth |-> FALSE]]
        /\ UNCHANGED <<authorizedUsers, everAuthorized>>
        /\ LockUnchanged

\* a goroutine is in handleAuth with the right code: it calls GetStatus
LockHandleAuth ==
    \E g \in Goroutines :
        /\ mu.g[g].pc = "idle"
        /\ mu' = [mu EXCEPT !.g[g] = [pc |-> "getStatus", op |-> "authorizeUser",
                                      status |-> VPNStatusUnknown,
                                      inAuth |-> TRUE]]
        /\ UNCHANGED <<authorizedUsers, everAuthorized>>
        /\ LockUnchanged

\* GetStatus returns (Unknown stands for its error too): authorizeUser is
\* called with what it returned
LockAuthGetStatus ==
    \E g \in Goroutines, s \in VPNStatuses :
        /\ mu.g[g].pc = "getStatus"
        /\ mu' = [mu EXCEPT !.g[g].pc = "acquire", !.g[g].status = s]
        /\ UNCHANGED <<authorizedUsers, everAuthorized>>
        /\ LockUnchanged

\* Lock returns when nobody holds the mutex, RLock when no writer holds it
LockAcquire ==
    \E g \in Goroutines :
        /\ mu.g[g].pc = "acquire"
        /\ mu.writer = 0
        /\ IF lockMode(mu.g[g].op) = "Lock"
           THEN /\ mu.readers = {}
                /\ mu' = [mu EXCEPT !.writer = g, !.g[g].pc = "body"]
           ELSE mu' = [mu EXCEPT !.readers = @ \cup {g}, !.g[g].pc = "body"]
        /\ UNCHANGED <<authorizedUsers, everAuthorized>>
        /\ LockUnchanged

\* the statements between the lock and the deferred unlock
LockBody ==
    \E g \in Goroutines :
        LET me == mu.g[g]
        IN  /\ me.pc = "body"
            /\ authorizedUsers' =
                 IF me.op = "authorizeUser"
                 THEN authorizeUser(authorizedUsers, LockUser, me.status)
                 ELSE IF me.op = "updateCachedStatus"
                 THEN updateCachedStatus(authorizedUsers, LockUser, me.status)
                 ELSE authorizedUsers
            /\ everAuthorized' = everAuthorized \cup DOMAIN authorizedUsers'
            /\ mu' = [mu EXCEPT !.g[g].pc = "release",
                                !.g[g].status =
                                    IF me.op = "getCachedStatus"
                                    THEN getCachedStatus(authorizedUsers, LockUser)
                                    ELSE @]
            /\ LockUnchanged

\* the deferred Unlock or RUnlock; handleAuth goes on to send its answer
LockRelease ==
    \E g \in Goroutines :
        /\ mu.g[g].pc = "release"
        /\ mu' = [mu EXCEPT !.writer = IF @ = g THEN 0 ELSE @,
                            !.readers = @ \ {g},
                            !.g[g] = IF mu.g[g].inAuth
                                     THEN [@ EXCEPT !.pc = "send"]
                                     ELSE IdleGoroutine]
        /\ UNCHANGED <<authorizedUsers, everAuthorized>>
        /\ LockUnchanged

\* sendMessage of handleAuth returns
LockAuthSend ==
    \E g \in Goroutines :
        /\ mu.g[g].pc = "send"
        /\ mu' = [mu EXCEPT !.g[g] = IdleGoroutine]
        /\ UNCHANGED <<authorizedUsers, everAuthorized>>
        /\ LockUnchanged

NextLock ==
    \/ LockCall
    \/ LockHandleAuth
    \/ LockAuthGetStatus
    \/ LockAcquire
    \/ LockBody
    \/ LockRelease
    \/ LockAuthSend

SpecLock == InitLock /\ [][NextLock]_vars

\* -------------------------------------------------------------------------
\* SpecExec: goroutines inside SSHClient.ExecuteCommand, statement by
\* statement (ssh_client.go lines 193-263).  SSHClient has no lock: a
\* goroutine is at "check" before "if s.client == nil", at "dial" inside
\* ssh.Dial, at "assign" before "s.client = client", at "session" before
\* s.client.NewSession(), at "run" inside session.CombinedOutput and at
\* "close" before the deferred session.Close().  A connection is named by
\* the goroutine that dialed it, a channel by the goroutine that opened it.
\* -------------------------------------------------------------------------

ExecCommands == {"cat", "xkeen -status"}

\* mutant: NewSession hands out a channel that is already open
newChannelShared(channels, g) ==
    IF DOMAIN channels # {} THEN CHOOSE c \in DOMAIN channels : TRUE ELSE g

\* s.client.NewSession(): a channel no other invocation has
newChannel(channels, g) == g

InitExec ==
    /\ InitHealthOff
    /\ InitMuFree
    /\ InitExecNew
    /\ InitSendIdle
    /\ environ = [XRAY_CONFIG_PATH |-> ""]
    /\ svcLast = [called |-> FALSE, output |-> <<>>]
    /\ updates = <<>>
    /\ InitCache
    /\ InitRouter({Garbage})
    /\ hostUp
    /\ rule = Rule("", <<>>, "", "", NilValue, NilValue, "", NilValue)
    /\ ruleResult = [called |-> FALSE]

ExecUnchanged ==
    UNCHANGED <<sshVars, vmLast, ruleVars, cacheVars, configPath, environ,
                svcLast, updates, health, mu, send>>

\* a goroutine calls ExecuteCommand(command)
ExecCall ==
    \E g \in Goroutines, command \in ExecCommands :
        /\ exec.g[g].pc = "idle"
        /\ exec' = [exec EXCEPT !.g[g] = [IdleCaller EXCEPT !.pc = "check",
                                                            !.command = command]]
        /\ ExecUnchanged

\* if s.client == nil
ExecCheck ==
    \E g \in Goroutines :
        /\ exec.g[g].pc = "check"
        /\ exec' = [exec EXCEPT !.g[g].pc =
                        IF exec.client = 0 THEN "dial" ELSE "session"]
        /\ ExecUnchanged

\* Connect: ssh.Dial returns a new connection, or an error that
\* ExecuteCommand returns
ExecDial ==
    \E g \in Goroutines, reached \in BOOLEAN :
        /\ exec.g[g].pc = "dial"
        /\ exec' = IF reached
                   THEN [exec EXCEPT !.open = @ \cup {g},
                                     !.g[g].dialed = g,
                                     !.g[g].pc = "assign"]
                   ELSE [exec EXCEPT !.g[g].pc = "idle",
                                     !.g[g].err = ConnectFailed]
        /\ ExecUnchanged

\* Connect: s.client = client
ExecAssign ==
    \E g \in Goroutines :
        /\ exec.g[g].pc = "assign"
        /\ exec' = [exec EXCEPT !.client = exec.g[g].dialed,
                                !.g[g].pc = "session"]
        /\ ExecUnchanged

\* session, err := s.client.NewSession()
ExecNewSession ==
    \E g \in Goroutines, opened \in BOOLEAN :
        LET c == newChannel(exec.channels, g)
        IN  /\ exec.g[g].pc = "session"
            /\ exec' = IF opened
                       THEN [exec EXCEPT
                               !.channels =
                                   IF c \in DOMAIN @ THEN @
                                   ELSE @ @@ (c :> [conn |-> exec.client,
                                                    ran |-> <<>>]),
                               !.g[g].session = c,
                               !.g[g].pc = "run"]
                       ELSE [exec EXCEPT !.g[g].pc = "idle",
                                         !.g[g].err = SessionFailed]
            /\ ExecUnchanged

\* output, err := session.CombinedOutput(command): the command runs on the
\* channel, and what the channel carried is the output, also when it fails
ExecRun ==
    \E g \in Goroutines, failed \in BOOLEAN :
        LET me == exec.g[g]
            ran == Append(exec.channels[me.session].ran, me.command)
        IN  /\ me.pc = "run"
            /\ exec' = [exec EXCEPT
                          !.channels[me.session].ran = ran,
                          !.g[g].output = ran,
                          !.g[g].err = IF failed THEN CommandFailed ELSE ErrNil,
                          !.g[g].pc = "close"]
            /\ ExecUnchanged

\* the deferred session.Close(), and the return
ExecClose ==
    \E g \in Goroutines :
        LET me == exec.g[g]
        IN  /\ me.pc = "close"
            /\ exec' = [exec EXCEPT
                          !.channels = [c \in DOMAIN @ \ {me.session} |-> @[c]],
                          !.g[g].session = 0,
                          !.g[g].pc = "idle"]
            /\ ExecUnchanged

NextExec ==
    \/ ExecCall
    \/ ExecCheck
    \/ ExecDial
    \/ ExecAssign
    \/ ExecNewSession
    \/ ExecRun
    \/ ExecClose

SpecExec == InitExec /\ [][NextExec]_vars

\* -------------------------------------------------------------------------
\* SpecMain: the bot as main starts it, with or without XRAY_CONFIG_PATH in
\* the environment (main.go lines 50-92)
\* -------------------------------------------------------------------------

\* main: NewVPNManager(sshClient, logger) is the only place that sets the
\* path; os.Getenv is called for LOG_LEVEL, TELEGRAM_BOT_TOKEN, AUTH_CODE,
\* ROUTER_HOST, ROUTER_USERNAME and ROUTER_PASSWORD only
InitMain ==
    /\ InitAux
    /\ environ \in {[XRAY_CONFIG_PATH |-> v] : v \in {"", customPath}}
    /\ svcLast = [called |-> FALSE, output |-> <<>>]
    /\ updates = <<>>
    /\ InitRouter({f \in BotFiles :
                    f.valid /\ Len(f.obj["routing"]["rules"]) = 2})
    /\ InitCache
    /\ rule = Rule("", <<>>, "", "", NilValue, NilValue, "", NilValue)
    /\ ruleResult = [called |-> FALSE]

SpecMain == InitMain /\ [][Next]_vars

\* -------------------------------------------------------------------------
\* SpecStatus: handleServiceStatus on a bounded family of outputs of
\* "xkeen -status"
\* -------------------------------------------------------------------------

\* the pieces an output is made of
StatusPieces ==
    {"ESC", "[31m", "[0m", "ne", " ", "zapushchen", "x", "\n", "ps: ",
     "applet not found"}

\* the diagnostic line of a router without ps, plain and in color
DiagnosticLines ==
    {<<"ps: ", "applet not found">>,
     <<"ESC", "[31m", "ps: ", "applet not found", "ESC", "[0m">>,
     <<"[31m", "ps: ", "applet not found", "[0m">>,
     <<" ", "ESC", "[31m", "ps: ", "applet not found", "ESC", "[0m", " ">>}

\* a line of "xkeen -status" for a daemon that is not running
NotRunningLines ==
    {NotRunningPhrase,
     <<"x", " ">> \o NotRunningPhrase,
     <<"ESC", "[31m", "x", " ">> \o NotRunningPhrase \o <<"ESC", "[0m">>,
     <<" ">> \o NotRunningPhrase \o <<" ">>}

\* the outputs with a diagnostic line and a "not running" line
DiagnosticOutputs ==
    {d \o <<"\n">> \o n \o e :
        d \in DiagnosticLines, n \in NotRunningLines, e \in {<<>>, <<"\n">>}}
    \cup {n \o <<"\n">> \o d \o e :
        d \in DiagnosticLines, n \in NotRunningLines, e \in {<<>>, <<"\n">>}}

InitStatus ==
    /\ InitAux
    /\ environ = [XRAY_CONFIG_PATH |-> ""]
    /\ updates = <<>>
    /\ svcLast \in {[called |-> FALSE, output |-> out] :
                      out \in ServiceOutputs \cup DiagnosticOutputs
                              \cup SeqsUpTo(StatusPieces, MaxOutput)}
    /\ InitRouter({Garbage})
    /\ hostUp
    /\ InitCache
    /\ rule = Rule("", <<>>, "", "", NilValue, NilValue, "", NilValue)
    /\ ruleResult = [called |-> FALSE]

\* an authorized user asks for the service status; the text of the result
\* message is kept
StatusHandleServiceStatus ==
    /\ ~svcLast.called
    /\ LET st == handleServiceStatus([St EXCEPT !.svcOut = svcLast.output],
                                     [from |-> 1, text |-> CommandServiceStatus],
                                     {})
       IN  /\ Commit(st)
           /\ svcLast' = [called |-> TRUE, output |-> svcLast.output,
                          text |-> st.ops[Len(st.ops)].what]
    /\ UNCHANGED <<vmLast, ruleVars, cacheVars, configPath, environ, updates,
                   auxVars>>

NextStatus == StatusHandleServiceStatus

SpecStatus == InitStatus /\ [][NextStatus]_vars

\* =========================================================================
\* Properties
\* =========================================================================

C2_TestIsTargetRule ==
    ruleResult.called =>
        /\ "redirect" \notin Range(rule.InboundTag) => ~ruleResult.value
        /\ "tproxy" \notin Range(rule.InboundTag) => ~ruleResult.value
        /\ rule.Network # "tcp,udp" => ~ruleResult.value
        /\ (rule.InboundTag = <<"redirect", "tproxy">> /\ rule.Network = "tcp,udp")
              => ruleResult.value

\* the valid rule of the test, with every other field set, was accepted
C2_Witness ==
    /\ ruleResult.called
    /\ ruleResult.value
    /\ rule.InboundTag = <<"redirect", "tproxy">>
    /\ rule.OutboundTag = "block"
    /\ rule.Type = "field"
    /\ rule.Port = "443"
    /\ ~rule.Domain.nil /\ ~rule.IP.nil /\ ~rule.Protocol.nil

\* ---- the remote document as the properties read it ----------------------

\* the file at the path VPNManager is configured with
ConfigFile == remoteFile[configPath]

\* the rule objects of a remote file, in document order
DocRules(file) ==
    IF file.valid /\ "routing" \in DOMAIN file.obj
                  /\ "rules" \in DOMAIN file.obj["routing"]
    THEN file.obj["routing"]["rules"]
    ELSE <<>>

\* the file is JSON and has a routing section
HasRouting(file) == file.valid /\ "routing" \in DOMAIN file.obj

\* the predicate of the default rule on a rule object
IsDefaultRule(o) ==
    /\ "inboundTag" \in DOMAIN o
    /\ {"redirect", "tproxy"} \subseteq Range(o["inboundTag"])
    /\ "network" \in DOMAIN o
    /\ o["network"] = "tcp,udp"

\* the outboundTag of a rule object, "" when it has none
OutboundTagOf(o) == IF "outboundTag" \in DOMAIN o THEN o["outboundTag"] ELSE ""

\* the indexes of the rules of a file that satisfy the predicate
Matches(file) == {i \in DOMAIN DocRules(file) : IsDefaultRule(DocRules(file)[i])}

\* the least element of a non-empty set of numbers
Least(S) == CHOOSE i \in S : \A j \in S : i <= j

\* the last operation issued the remote command cmd
Issued(cmd) == \E i \in DOMAIN ops : ops[i].cmd = cmd

\* C3: a getStatus performed right after a successful enable (disable), with
\* a successful remote read, returns Enabled (Disabled).
C3_RoundTrip ==
    [][/\ (/\ vmLast.op = "EnableVPN" /\ vmLast.err = ErrNil
           /\ vmLast'.op = "GetStatus" /\ vmLast'.err # ErrReadConfig)
          => (vmLast'.err = ErrNil /\ vmLast'.status = VPNStatusEnabled)
       /\ (/\ vmLast.op = "DisableVPN" /\ vmLast.err = ErrNil
           /\ vmLast'.op = "GetStatus" /\ vmLast'.err # ErrReadConfig)
          => (vmLast'.err = ErrNil /\ vmLast'.status = VPNStatusDisabled)]_vars

\* C4: enable/disable on a document whose last rule does not satisfy the
\* predicate of the default rule returns an error and leaves the remote file
\* as it was, issuing no backup, no write and no restart, also when an
\* earlier rule satisfies the predicate.
C4_LastRuleMismatchRefused ==
    [][(/\ vmLast'.op \in {"EnableVPN", "DisableVPN"}
        /\ Len(DocRules(ConfigFile)) > 0
        /\ ~IsDefaultRule(DocRules(ConfigFile)[Len(DocRules(ConfigFile))]))
       => (/\ vmLast'.err \in {ErrReadConfig, ErrLastRuleNotDefault}
           /\ remoteFile' = remoteFile
           /\ \A i \in DOMAIN ops' : ops'[i].cmd \in {"connect", "cat"})]_vars

\* a mutation was refused although the first of two rules matches
C4_Witness ==
    /\ vmLast.op = "EnableVPN"
    /\ vmLast.err = ErrLastRuleNotDefault
    /\ Len(DocRules(ConfigFile)) = 2
    /\ IsDefaultRule(DocRules(ConfigFile)[1])
    /\ ~IsDefaultRule(DocRules(ConfigFile)[2])
    /\ Issued("cat")

\* C5: getStatus decides on the first rule, in document order, that satisfies
\* the predicate: Enabled for outboundTag "vless-reality", Disabled for
\* "direct", Unknown without error for any other tag; later matching rules
\* have no influence.
C5_FirstMatchDecides ==
    (/\ vmLast.op = "GetStatus"
     /\ vmLast.err # ErrReadConfig
     /\ Matches(ConfigFile) # {})
    => LET tag == OutboundTagOf(DocRules(ConfigFile)[Least(Matches(ConfigFile))])
       IN  /\ vmLast.err = ErrNil
           /\ tag = "vless-reality" => vmLast.status = VPNStatusEnabled
           /\ tag = "direct" => vmLast.status = VPNStatusDisabled
           /\ tag \notin {"vless-reality", "direct"}
                => vmLast.status = VPNStatusUnknown

\* the first match has an unrecognized tag, a later match says "direct", and
\* Unknown was returned without error
C5_Witness ==
    /\ vmLast.op = "GetStatus"
    /\ vmLast.err = ErrNil
    /\ vmLast.status = VPNStatusUnknown
    /\ Matches(ConfigFile) = {1, 2}
    /\ OutboundTagOf(DocRules(ConfigFile)[1]) = "block"
    /\ OutboundTagOf(DocRules(ConfigFile)[2]) = "direct"

\* C6: getStatus on a document with a routing section and no rule that
\* satisfies the predicate returns an error with state Unknown, while a
\* matched rule with an unrecognized outboundTag gives Unknown with no error.
C6_NoMatchIsError ==
    (vmLast.op = "GetStatus" /\ vmLast.err # ErrReadConfig
                             /\ HasRouting(ConfigFile))
    => /\ Matches(ConfigFile) = {}
          => (vmLast.err = ErrTargetNotFound /\ vmLast.status = VPNStatusUnknown)
       /\ (/\ Matches(ConfigFile) # {}
           /\ vmLast.status = VPNStatusUnknown)
          => vmLast.err = ErrNil

\* two rules, neither matching: the error was returned
C6_Witness ==
    /\ vmLast.op = "GetStatus"
    /\ vmLast.err = ErrTargetNotFound
    /\ vmLast.status = VPNStatusUnknown
    /\ Len(DocRules(ConfigFile)) = 2
    /\ Issued("cat")

\* C7: after authorize(U, S) the entry of U holds S, getCached(U) returns S
\* and isAuthorized(U) is true; for a user ID that was never authorized,
\* whatever updateCached calls were made, isAuthorized is false and getCached
\* returns Unknown.
C7_AuthorizationCache ==
    /\ cacheLast.op = "authorizeUser"
         => /\ cacheLast.user \in DOMAIN authorizedUsers
            /\ authorizedUsers[cacheLast.user] = cacheLast.status
    /\ cacheLast.op = "getCachedStatus"
         => cacheLast.status =
              IF cacheLast.user \in DOMAIN authorizedUsers
              THEN authorizedUsers[cacheLast.user] ELSE VPNStatusUnknown
    /\ cacheLast.op = "isUserAuthorized"
         => (cacheLast.exists <=> cacheLast.user \in DOMAIN authorizedUsers)
    /\ \A u \in Users \ everAuthorized : u \notin DOMAIN authorizedUsers
    /\ (cacheLast.op = "getCachedStatus" /\ cacheLast.user \notin everAuthorized)
         => cacheLast.status = VPNStatusUnknown
    /\ (cacheLast.op = "isUserAuthorized" /\ cacheLast.user \notin everAuthorized)
         => ~cacheLast.exists

\* updateCached(Enabled) was just called for a user that was never
\* authorized, while another user is authorized
C7_Witness ==
    /\ cacheLast.op = "updateCachedStatus"
    /\ cacheLast.status = VPNStatusEnabled
    /\ cacheLast.user \notin everAuthorized
    /\ everAuthorized # {}

\* ---- the handling of an update as the properties read it ----------------

\* the operation triggers handleAuthorizedCommand accepts
OperationTriggers ==
    {CommandStatus, CommandEnableVPN, CommandDisableVPN, CommandStartVPN,
     CommandStopVPN, CommandServiceStatus}

UnauthorizedReply == "Unauthorized access. Please authenticate first"

UnknownCommandReply == "Unknown command. Please use the keyboard buttons."

\* everything the log holds is a send of the message what, and there is one
OnlyReply(log, what) ==
    /\ log # <<>>
    /\ \A i \in DOMAIN log :
         log[i].cmd = "chat" /\ log[i].method = "send" /\ log[i].what = what

\* C8: a user becomes authorized only in a step that handles a message of
\* that user which handleAuth receives and whose code argument equals the
\* configured code.
C8_OnlyCorrectCodeAuthorizes ==
    [][\A u \in Users :
         (u \notin DOMAIN authorizedUsers /\ u \in DOMAIN authorizedUsers')
         => /\ ~botLast'.idle
            /\ botLast'.user = u
            /\ botLast'.handler = "handleAuth"
            /\ HasPrefix(botLast'.text, CommandAuth)
            /\ Len(Fields(botLast'.text)) = 2
            /\ Fields(botLast'.text)[2] = authCode]_vars

\* a user authenticated while the other user stays unauthorized
C8_Witness ==
    /\ botLast.handler = "handleAuth"
    /\ botLast.text = CommandAuth \o <<" ">> \o authCode
    /\ DOMAIN authorizedUsers = {botLast.user}

\* C9: no step removes an entry from the authorization cache.
C9_NeverDeauthorized ==
    [][\A u \in Users :
         u \in DOMAIN authorizedUsers => u \in DOMAIN authorizedUsers']_vars

\* an authorized user presented a wrong code and is still authorized
C9_Witness ==
    /\ botLast.handler = "handleAuth"
    /\ botLast.user \in DOMAIN authorizedUsers
    /\ \E i \in DOMAIN ops :
         /\ ops[i].cmd = "chat"
         /\ ops[i].what = "Invalid authentication code. Access denied."

\* C10 (as stated): a text other than the authentication trigger from an
\* unauthorized user gets the "unauthorized" reply and no remote operation; a
\* text that is no operation trigger from an authorized user gets the "not
\* recognized" reply and no remote operation.
C10_AsStated ==
    [][(~botLast'.idle /\ botLast'.handler # "none")
       => /\ (/\ botLast'.user \notin DOMAIN authorizedUsers
              /\ ~HasPrefix(botLast'.text, CommandAuth))
             => OnlyReply(ops', UnauthorizedReply)
          /\ (/\ botLast'.user \in DOMAIN authorizedUsers
              /\ botLast'.text \notin OperationTriggers)
             => OnlyReply(ops', UnknownCommandReply)]_vars

\* C10 (amended): the same for texts that start with neither "/start" nor
\* "/auth".
C10_NeitherPrefix ==
    [][(/\ ~botLast'.idle /\ botLast'.handler # "none"
        /\ ~HasPrefix(botLast'.text, CommandStart)
        /\ ~HasPrefix(botLast'.text, CommandAuth))
       => /\ botLast'.user \notin DOMAIN authorizedUsers
             => OnlyReply(ops', UnauthorizedReply)
          /\ (/\ botLast'.user \in DOMAIN authorizedUsers
              /\ botLast'.text \notin OperationTriggers)
             => OnlyReply(ops', UnknownCommandReply)]_vars

\* an unauthorized user pressed the enable button while another user is
\* authorized, and only the "unauthorized" reply went out
C10_Witness ==
    /\ botLast.handler = "sendUnauthorizedMessage"
    /\ botLast.text = CommandEnableVPN
    /\ botLast.user \notin DOMAIN authorizedUsers
    /\ authorizedUsers # Empty
    /\ ops = <<[cmd |-> "chat", method |-> "send", what |-> UnauthorizedReply,
                outcome |-> "ok"]>>

\* ---- the log of an operation as the properties read it -------------------

\* the indexes of the chat requests of a log
ChatIndexes(log) == {i \in DOMAIN log : log[i].cmd = "chat"}

\* the texts of the chat requests of a log from index from on
ChatTextsFrom(log, from) == {log[i].what : i \in {j \in ChatIndexes(log) : j >= from}}

\* the log holds the remote command cmd with the outcome outcome
Ran(log, cmd, outcome) ==
    \E i \in DOMAIN log : log[i].cmd = cmd /\ log[i].outcome = outcome

\* C11: when the configuration write of enable/disable succeeded, the
\* mutation is reported with the success message whatever the outcome of
\* the restart, and the written document stays in place.
C11_RestartFailureNotSurfaced ==
    (/\ botLast.handler \in {"handleEnableVPN", "handleDisableVPN"}
     /\ Ran(ops, "write", "ok"))
    => LET enable == botLast.handler = "handleEnableVPN"
           rules == DocRules(ConfigFile)
       IN  /\ ChatTextsFrom(ops, 1) =
                {IF enable THEN "ROUTING SWITCHED TO VPN"
                           ELSE "ROUTING SWITCHED TO DIRECT"}
           /\ Len(rules) > 0
           /\ OutboundTagOf(rules[Len(rules)]) =
                IF enable THEN "vless-reality" ELSE "direct"

\* the write succeeded, the restart failed, and the success message went out
C11_Witness ==
    /\ botLast.handler = "handleEnableVPN"
    /\ Ran(ops, "write", "ok")
    /\ Ran(ops, "restart", CommandFailed)
    /\ \E i \in ChatIndexes(ops) :
         ops[i].what = "ROUTING SWITCHED TO VPN" /\ ops[i].outcome = "ok"

\* the rule object o with its outboundTag set to tag
WithOutboundTag(o, tag) ==
    [k \in DOMAIN o \cup {"outboundTag"} |->
        IF k = "outboundTag" THEN tag ELSE o[k]]

\* C12: a successful mutation changes the remote document only in the
\* outboundTag of its last rule: every other key of the document, of the
\* routing section and of every rule, and the order of the rules, are as read.
C12_OnlyOutboundTagChanges ==
    [][(vmLast'.op \in {"EnableVPN", "DisableVPN"} /\ vmLast'.err = ErrNil)
       => LET n == Len(DocRules(ConfigFile))
              tag == IF vmLast'.op = "EnableVPN" THEN "vless-reality"
                                                 ELSE "direct"
          IN  ConfigFile' =
                Json([ConfigFile.obj EXCEPT !["routing"] =
                        [@ EXCEPT !["rules"] =
                            [@ EXCEPT ![n] = WithOutboundTag(@, tag)]]])]_vars

\* C13 (as stated): validate issues no write, backup or restart, and
\* succeeds iff the document parses, has a routing section, and exactly one
\* rule satisfies the predicate of the default rule.
C13_ExactlyOneMatch ==
    (vmLast.op = "ValidateConfiguration" /\ vmLast.err # ErrReadConfig)
    => /\ vmLast.err = ErrNil
            <=> (HasRouting(ConfigFile) /\ Cardinality(Matches(ConfigFile)) = 1)
       /\ \A i \in DOMAIN ops : ops[i].cmd \in {"connect", "cat"}

\* C13 (amended): validate issues no write, backup or restart, and succeeds
\* iff the document parses, has a routing section, and at least one rule
\* satisfies the predicate of the default rule.
C13_AtLeastOneMatch ==
    (vmLast.op = "ValidateConfiguration" /\ vmLast.err # ErrReadConfig)
    => /\ vmLast.err = ErrNil
            <=> (HasRouting(ConfigFile) /\ Matches(ConfigFile) # {})
       /\ \A i \in DOMAIN ops : ops[i].cmd \in {"connect", "cat"}

\* validate succeeded on a document with two matching rules
C13_Witness ==
    /\ vmLast.op = "ValidateConfiguration"
    /\ vmLast.err = ErrNil
    /\ Cardinality(Matches(ConfigFile)) = 2
    /\ Ran(ops, "cat", "ok")

\* getStatus failed on the file, given the log of the operation that read it
StatusReadFailed(log, file) ==
    \/ ~Ran(log, "cat", "ok")
    \/ ~HasRouting(file)
    \/ Matches(file) = {}

\* the first request of the log is a chat message that was delivered
ProgressDelivered(log) ==
    log # <<>> /\ log[1].cmd = "chat" /\ log[1].outcome = "ok"

\* the text that reports a routing state
StateReport(status) ==
    IF status = VPNStatusEnabled THEN "VPN ROUTING ACTIVE"
    ELSE IF status = VPNStatusDisabled THEN "DIRECT ROUTING ACTIVE"
    ELSE "ROUTING STATUS UNKNOWN"

OperationHandlers ==
    {"handleStatus", "handleEnableVPN", "handleDisableVPN", "handleStartVPN",
     "handleStopVPN", "handleServiceStatus"}

\* C17: for every operation trigger of an authorized user (the chat requests
\* all succeeding), a progress acknowledgment is sent before the first remote
\* command and a result message after the last.
C17_AckOperationResult ==
    (/\ botLast.handler \in OperationHandlers
     /\ \A i \in ChatIndexes(ops) : ops[i].outcome = "ok")
    => \E a, r \in ChatIndexes(ops) :
         /\ a < r
         /\ \A i \in DOMAIN ops \ ChatIndexes(ops) : a < i /\ i < r

\* every command of the log that names a file names the file at path
OnlyPath(log, path) ==
    \A i \in DOMAIN log : "path" \in DOMAIN log[i] => log[i].path = path

C19_EnvConfigPath ==
    OnlyPath(ops, IF environ.XRAY_CONFIG_PATH # ""
                  THEN environ.XRAY_CONFIG_PATH
                  ELSE "/opt/etc/xray/configs/05_routing.json")

\* the status output as the classification sees it: the lines that are left
\* without the diagnostic, the color codes and the outer white space
Sanitized(output) ==
    TrimSpace(RemoveAll(RemoveAll(RemoveAll(RemoveAll(
        JoinLines(cleanLines(SplitLines(output))),
        <<"ESC", "[31m">>), <<"ESC", "[0m">>), <<"[31m">>), <<"[0m">>))

\* C20 (as stated): sanitized output with the "not running" phrase is
\* classified as not running, with the "running" phrase and no negation as
\* running, and with neither phrase as unknown.
C20_NeitherIsUnknown ==
    svcLast.called
    => LET c == Sanitized(svcLast.output)
       IN  /\ Contains(c, NotRunningPhrase) => svcLast.text = "VPN SERVICE STOPPED"
           /\ (Contains(c, RunningPhrase) /\ ~Contains(c, NotRunningPhrase))
                => svcLast.text = "VPN SERVICE RUNNING"
           /\ ~Contains(c, RunningPhrase)
                => svcLast.text = "VPN SERVICE STATUS UNKNOWN"

\* C20 (amended): sanitized output with the "not running" phrase is
\* classified as not running; any other sanitized output that is not empty,
\* with the "running" phrase or without it, as running; empty sanitized
\* output as unknown.
C20_EmptyIsUnknown ==
    svcLast.called
    => LET c == Sanitized(svcLast.output)
       IN  /\ Contains(c, NotRunningPhrase) => svcLast.text = "VPN SERVICE STOPPED"
           /\ (c # <<>> /\ ~Contains(c, NotRunningPhrase))
                => svcLast.text = "VPN SERVICE RUNNING"
           /\ c = <<>> => svcLast.text = "VPN SERVICE STATUS UNKNOWN"

\* an output with neither phrase was classified as running
C20_Witness ==
    /\ svcLast.called
    /\ svcLast.output = <<"ESC", "[31m", "x">>
    /\ svcLast.text = "VPN SERVICE RUNNING"

\* C15: when the held connection has become unusable while the router is
\* reachable, a later call of ExecuteCommand re-establishes it, unless the
\* router goes away: the calls do not go on failing forever with the router
\* reachable.
C15_SessionReestablished ==
    (client = "conn" /\ ~connAlive /\ hostUp) ~> (connAlive \/ ~hostUp)

\* C16: a remote command that never returns does not keep later updates from
\* being handled: an update of another user that waits in the channel while
\* the command of one user is stuck is taken from the channel and dispatched.
C16_StuckCommandBlocksNoOne ==
    \A n \in 1..MaxPending :
        (Stuck /\ Len(updates) = n /\ Head(updates).from # botLast.user)
            ~> (Len(updates) < n)

\* the line is the diagnostic of a router without ps
IsDiagnosticLine(line) == Contains(line, <<"applet not found">>)

\* C21: raw output with a diagnostic line ("ps: applet not found", in color
\* or not) and another line with the "not running" phrase is classified as
\* stopped.
C21_DiagnosticLineIgnored ==
    (/\ svcLast.called
     /\ LET lines == SplitLines(svcLast.output)
        IN  /\ \E i \in DOMAIN lines : IsDiagnosticLine(lines[i])
            /\ \E j \in DOMAIN lines :
                /\ ~IsDiagnosticLine(lines[j])
                /\ Contains(lines[j], NotRunningPhrase))
    => svcLast.text = "VPN SERVICE STOPPED"

\* the diagnostic line in color, then a "not running" line: stopped
C21_Witness ==
    /\ svcLast.called
    /\ svcLast.output = <<"ESC", "[31m", "ps: ", "applet not found", "ESC",
                          "[0m", "\n", "x", " ", "ne", " ", "zapushchen">>
    /\ svcLast.text = "VPN SERVICE STOPPED"

\* every required configuration value is present and not empty
RequiredPresent ==
    /\ environ["TELEGRAM_BOT_TOKEN"] # ""
    /\ environ["AUTH_CODE"] # ""
    /\ environ["ROUTER_HOST"] # ""
    /\ environ["ROUTER_USERNAME"] # ""
    /\ environ["ROUTER_PASSWORD"] # ""

InCriticalSection(g) == mu.g[g].pc \in {"body", "release"}

\* the operation the goroutine is in writes the map
IsWriter(g) == mu.g[g].op \in {"authorizeUser", "updateCachedStatus"}

\* C23: authorizeUser and updateCachedStatus hold the mutex exclusively,
\* isUserAuthorized and getCachedStatus in shared mode; no writer is in its
\* critical section while another operation is in its own; and a goroutine
\* inside GetStatus or sendMessage holds the mutex in no mode.
C23_CacheOperationsExclude ==
    /\ \A g \in Goroutines :
        InCriticalSection(g)
        => IF IsWriter(g) THEN mu.writer = g /\ mu.readers = {}
                          ELSE g \in mu.readers /\ mu.writer = 0
    /\ \A g1, g2 \in Goroutines :
        (g1 # g2 /\ InCriticalSection(g1) /\ InCriticalSection(g2))
        => ~IsWriter(g1) /\ ~IsWriter(g2)
    /\ \A g \in Goroutines :
        mu.g[g].pc \in {"getStatus", "send"}
        => mu.writer # g /\ g \notin mu.readers

\* updateCachedStatus is in its critical section while getCachedStatus of
\* another goroutine waits for the mutex
C23_Witness ==
    \E g1, g2 \in Goroutines :
        /\ g1 # g2
        /\ InCriticalSection(g1)
        /\ mu.g[g1].op = "updateCachedStatus"
        /\ mu.g[g2].pc = "acquire"
        /\ mu.g[g2].op = "getCachedStatus"

\* the log holds a connection attempt
Dialed(log) == \E i \in DOMAIN log : log[i].cmd = "connect"

\* C24: no connection is attempted before the first call of ExecuteCommand;
\* a call made while a client is held attempts none; a call whose attempt
\* fails returns the error without running its command and leaves no client,
\* and a call made without a client attempts to connect first.
C24_LazyConnectAndReuse ==
    /\ client = "nil" /\ ~Dialed(ops)
    /\ [][SSHExecuteCommand =>
            /\ client = "conn" => (~Dialed(ops') /\ client' = "conn")
            /\ client = "nil" => (ops' # <<>> /\ ops'[1].cmd = "connect")
            /\ Ran(ops', "connect", "failed")
                => /\ ops' = <<[cmd |-> "connect", outcome |-> "failed"]>>
                   /\ vmLast'.err = ConnectFailed
                   /\ client' = "nil"
                   /\ remoteFile' = remoteFile]_vars

\* a call ran its command on the client an earlier call had connected
C24_Witness ==
    /\ vmLast.op = "ExecuteCommand"
    /\ vmLast.err = ErrNil
    /\ client = "conn"
    /\ Len(ops) = 1
    /\ ops[1].cmd = "write"
    /\ ops[1].outcome = "ok"

\* no goroutine is inside ExecuteCommand
ExecQuiet == \A g \in Goroutines : exec.g[g].pc = "idle"

C26_OwnChannel ==
    /\ \A g \in Goroutines :
        LET me == exec.g[g]
        IN  /\ me.pc = "run"
                => /\ me.session \in DOMAIN exec.channels
                   /\ exec.channels[me.session].ran = <<>>
            /\ me.pc = "close"
                => /\ me.session \in DOMAIN exec.channels
                   /\ exec.channels[me.session].ran = <<me.command>>
                   /\ me.output = <<me.command>>
            /\ me.pc = "idle"
                => /\ me.session = 0
                   /\ me.err \in {ErrNil, CommandFailed} /\ me.command # "none"
                        => me.output = <<me.command>>
    /\ \A g1, g2 \in Goroutines :
        (g1 # g2 /\ exec.g[g1].session # 0) => exec.g[g1].session # exec.g[g2].session
    /\ DOMAIN exec.channels =
         {exec.g[g].session : g \in {h \in Goroutines : exec.g[h].pc \in {"run", "close"}}}

\* a command failed and its output was returned while another invocation
\* has its own channel on the same connection
C26_Witness ==
    \E g1, g2 \in Goroutines :
        /\ g1 # g2
        /\ exec.g[g1].pc = "idle"
        /\ exec.g[g1].err = CommandFailed
        /\ exec.g[g1].output = <<"cat">>
        /\ exec.g[g2].pc = "close"
        /\ exec.g[g2].command = "xkeen -status"
        /\ exec.channels[exec.g[g2].session].conn = exec.client

\* the entries of the log that are commands sent to the router
CommandIndexes(log) == {i \in DOMAIN log : log[i].cmd \notin {"connect", "chat"}}

\* C27: one call of ExecuteCommand issues its command at most once; a command
\* that failed is not issued again: the call returns the error and the files
\* of the router are as they were.
C27_NoRetry ==
    [][SSHExecuteCommand =>
        /\ Cardinality(CommandIndexes(ops')) <= 1
        /\ \A i \in CommandIndexes(ops') :
            ops'[i].outcome = CommandFailed
            => /\ vmLast'.err = CommandFailed
               /\ remoteFile' = remoteFile]_vars

\* an overwrite failed, was issued once and was reported
C27_Witness ==
    /\ vmLast.op = "ExecuteCommand"
    /\ vmLast.err = CommandFailed
    /\ Len(ops) = 1
    /\ ops[1].cmd = "write"
    /\ ops[1].outcome = CommandFailed

\* the entries of the log for the command cmd
IndexesOf(log, cmd) == {i \in DOMAIN log : log[i].cmd = cmd}

\* C28: in a mutation the backup copy is requested right before the
\* overwrite, which is issued also when the copy failed; the restart is
\* issued only after an overwrite that succeeded; and when the overwrite
\* fails the mutation returns an error and no restart is issued.
C28_BackupWriteRestartOrder ==
    vmLast.op \in {"EnableVPN", "DisableVPN"}
    => /\ \A w \in IndexesOf(ops, "write") : w > 1 /\ ops[w - 1].cmd = "cp"
       /\ \A c \in IndexesOf(ops, "cp") :
            c < Len(ops) /\ ops[c + 1].cmd = "write"
       /\ \A r \in IndexesOf(ops, "restart") :
            \E w \in IndexesOf(ops, "write") : w < r /\ ops[w].outcome = "ok"
       /\ \A w \in IndexesOf(ops, "write") :
            ops[w].outcome # "ok"
            => vmLast.err = ErrWriteConfig /\ IndexesOf(ops, "restart") = {}

\* the copy failed, the overwrite was done all the same, and the restart
\* followed it
C28_Witness ==
    /\ vmLast.op = "EnableVPN"
    /\ vmLast.err = ErrNil
    /\ \E c \in IndexesOf(ops, "cp") :
        /\ ops[c].outcome = CommandFailed
        /\ ops[c + 1].cmd = "write"
        /\ ops[c + 1].outcome = "ok"
        /\ ops[c + 2].cmd = "restart"

\* C29: EnableVPN and DisableVPN return an error and issue no backup, no
\* overwrite and no restart when the remote read fails, or the content is not
\* JSON, or it has no routing section, or no rule; the remote files are
\* unchanged.
C29_NothingToMutate ==
    [][(/\ vmLast'.op \in {"EnableVPN", "DisableVPN"}
        /\ \/ ~Ran(ops', "cat", "ok")
           \/ ~ConfigFile.valid
           \/ ~HasRouting(ConfigFile)
           \/ Len(DocRules(ConfigFile)) = 0)
       => (/\ vmLast'.err # ErrNil
           /\ remoteFile' = remoteFile
           /\ \A i \in DOMAIN ops' : ops'[i].cmd \in {"connect", "cat"})]_vars

\* the configuration had a routing section with an empty list of rules, was
\* read, and the mutation was refused
C29_Witness ==
    /\ vmLast.op = "DisableVPN"
    /\ vmLast.err = ErrNoRules
    /\ Ran(ops, "cat", "ok")
    /\ HasRouting(ConfigFile)
    /\ "rules" \in DOMAIN ConfigFile.obj["routing"]

\* the message handleAuth has just handled presents the configured code
PresentsCode(last) ==
    /\ Len(Fields(last.text)) = 2
    /\ Fields(last.text)[2] = authCode

\* C30: a step in which handleAuth handles a message with a wrong code or a
\* wrong number of arguments leaves the authorization cache as it was and
\* sends the rejection; a step in which it handles a message with the
\* configured code, in whatever state and after whatever came before, leaves
\* the sender authorized, with the state Unknown when the configuration
\* could not be read.
C30_NoLockout ==
    [][(~botLast'.idle /\ botLast'.handler = "handleAuth")
       => IF PresentsCode(botLast')
          THEN /\ botLast'.user \in DOMAIN authorizedUsers'
               /\ ~Ran(ops', "cat", "ok")
                  => authorizedUsers'[botLast'.user] = VPNStatusUnknown
               /\ \A u \in DOMAIN authorizedUsers \ {botLast'.user} :
                    authorizedUsers'[u] = authorizedUsers[u]
          ELSE /\ authorizedUsers' = authorizedUsers
               /\ \/ OnlyReply(ops', "Please provide the authentication code")
                  \/ OnlyReply(ops',
                               "Invalid authentication code. Access denied.")]_vars

\* the configured code was presented while the configuration could not be
\* read, and the sender is authorized with the state Unknown
C30_Witness ==
    /\ ~botLast.idle
    /\ botLast.handler = "handleAuth"
    /\ PresentsCode(botLast)
    /\ Ran(ops, "cat", CommandFailed)
    /\ botLast.user \in DOMAIN authorizedUsers
    /\ authorizedUsers[botLast.user] = VPNStatusUnknown

\* the state a status read reports on the file, given the log of the
\* operation that read it: Unknown when the read failed
ObservedState(log, file) ==
    IF StatusReadFailed(log, file) THEN VPNStatusUnknown
    ELSE LET tag == OutboundTagOf(DocRules(file)[Least(Matches(file))])
         IN  IF tag = "vless-reality" THEN VPNStatusEnabled
             ELSE IF tag = "direct" THEN VPNStatusDisabled
             ELSE VPNStatusUnknown

\* C31: when a user who has an entry presents the configured code, the entry
\* is overwritten with the state the status read of that authentication
\* returned, whatever it held.
C31_ReauthenticationResets ==
    [][(/\ ~botLast'.idle
        /\ botLast'.handler = "handleAuth"
        /\ PresentsCode(botLast')
        /\ botLast'.user \in DOMAIN authorizedUsers)
       => authorizedUsers'[botLast'.user] = ObservedState(ops', ConfigFile)]_vars

\* the only user ever authorized has toggled the routing (the file is none of
\* the initial ones, the entry held Enabled or Disabled), presents the code
\* again while the read fails, and the entry holds Unknown
C31_Witness ==
    /\ ~botLast.idle
    /\ botLast.handler = "handleAuth"
    /\ PresentsCode(botLast)
    /\ everAuthorized = {botLast.user}
    /\ ConfigFile \notin BotFiles
    /\ Ran(ops, "cat", CommandFailed)
    /\ authorizedUsers[botLast.user] = VPNStatusUnknown

\* C32: a step that handles an operation trigger sets the entry of the acting
\* user to the state returned when it is a status query whose read
\* succeeded, to Enabled when it is an enable that succeeded, to Disabled
\* when it is a disable that succeeded, and leaves the cache as it was in
\* every other case: a failed query, enable or disable, and every service
\* start, stop and status operation.
C32_RefreshedWhenDetermined ==
    [][(~botLast'.idle /\ botLast'.handler \in OperationHandlers)
       => LET u == botLast'.user
              h == botLast'.handler
          IN  /\ u \in DOMAIN authorizedUsers
              /\ authorizedUsers' =
                   IF h = "handleStatus" /\ ~StatusReadFailed(ops', ConfigFile)
                   THEN [authorizedUsers EXCEPT
                            ![u] = ObservedState(ops', ConfigFile)]
                   ELSE IF h = "handleEnableVPN" /\ Ran(ops', "write", "ok")
                   THEN [authorizedUsers EXCEPT ![u] = VPNStatusEnabled]
                   ELSE IF h = "handleDisableVPN" /\ Ran(ops', "write", "ok")
                   THEN [authorizedUsers EXCEPT ![u] = VPNStatusDisabled]
                   ELSE authorizedUsers]_vars

\* a user whose entry holds Disabled started the service, on a router whose
\* routing is enabled: the entry still holds Disabled
C32_Witness ==
    /\ ~botLast.idle
    /\ botLast.handler = "handleStartVPN"
    /\ Ran(ops, "start", "ok")
    /\ authorizedUsers[botLast.user] = VPNStatusDisabled
    /\ ObservedState(<<[cmd |-> "cat", outcome |-> "ok"]>>, ConfigFile)
         = VPNStatusEnabled

\* the cache entry of user v, "none" when v has no entry
EntryOf(users, v) == IF v \in DOMAIN users THEN users[v] ELSE "none"

\* C33: the cache entry of a user is created or changed only by a step that
\* handles a message of that user; handling a message of another user leaves
\* it as it was.
C33_OwnMessagesOnly ==
    [][\A v \in Users :
         EntryOf(authorizedUsers', v) # EntryOf(authorizedUsers, v)
         => (~botLast'.idle /\ botLast'.user = v)]_vars

\* one user has just disabled the routing and the entry of the other user
\* still holds Enabled, while the remote file says Disabled
C33_Witness ==
    /\ ~botLast.idle
    /\ botLast.handler = "handleDisableVPN"
    /\ Ran(ops, "write", "ok")
    /\ authorizedUsers[botLast.user] = VPNStatusDisabled
    /\ \E v \in DOMAIN authorizedUsers \ {botLast.user} :
         authorizedUsers[v] = VPNStatusEnabled
    /\ ObservedState(<<[cmd |-> "cat", outcome |-> "ok"]>>, ConfigFile)
         = VPNStatusDisabled

\* the two operations that only inspect the document
Inspections == {"ValidateConfiguration", "GetStatus"}

\* C34: when one of ValidateConfiguration and GetStatus is called right after
\* the other (the document between them is the same, neither writes it) and
\* both read the document, one returns no error exactly when the other does.
C34_ValidateIffStatus ==
    [][(/\ vmLast.op \in Inspections
        /\ vmLast'.op \in Inspections \ {vmLast.op}
        /\ vmLast.err # ErrReadConfig
        /\ vmLast'.err # ErrReadConfig)
       => /\ remoteFile' = remoteFile
          /\ vmLast'.err = ErrNil <=> vmLast.err = ErrNil]_vars

\* GetStatus returned Unknown and no error on a document whose first matching
\* rule has an unrecognized tag: the document validation accepts
C34_Witness ==
    /\ vmLast.op = "GetStatus"
    /\ vmLast.err = ErrNil
    /\ vmLast.status = VPNStatusUnknown
    /\ Ran(ops, "cat", "ok")
    /\ Matches(ConfigFile) # {}
    /\ OutboundTagOf(DocRules(ConfigFile)[Least(Matches(ConfigFile))]) = "block"

\* the tag EnableVPN and DisableVPN write
TargetTag(op) == IF op = "EnableVPN" THEN "vless-reality" ELSE "direct"

\* the last call was an EnableVPN or DisableVPN that returned no error
Mutated(last) == last.op \in {"EnableVPN", "DisableVPN"} /\ last.err = ErrNil

\* C35: after a successful EnableVPN or DisableVPN, whatever calls came
\* before, the last rule of the remote document has the tag of that call;
\* and a successful call that follows a successful call of the same
\* operation leaves the remote document as that one left it.
C35_IdempotentLastWriterWins ==
    /\ Mutated(vmLast)
         => /\ Len(DocRules(ConfigFile)) > 0
            /\ OutboundTagOf(DocRules(ConfigFile)[Len(DocRules(ConfigFile))])
                 = TargetTag(vmLast.op)
    /\ [][(Mutated(vmLast) /\ Mutated(vmLast') /\ vmLast'.op = vmLast.op)
          => remoteFile' = remoteFile]_vars

\* a DisableVPN has succeeded and written a document of two rules: the first
\* rule says "vless-reality", the last "direct"
C35_Witness ==
    /\ Mutated(vmLast)
    /\ vmLast.op = "DisableVPN"
    /\ Ran(ops, "write", "ok")
    /\ Len(DocRules(ConfigFile)) = 2
    /\ OutboundTagOf(DocRules(ConfigFile)[1]) = "vless-reality"
    /\ OutboundTagOf(DocRules(ConfigFile)[2]) = "direct"

\* the precondition of a mutation on a file: it has rules and the last one
\* satisfies the predicate of the default rule
Mutable(file) ==
    /\ Len(DocRules(file)) > 0
    /\ IsDefaultRule(DocRules(file)[Len(DocRules(file))])

\* C36: the document a successful EnableVPN or DisableVPN leaves has rules
\* and its last rule satisfies the predicate; and on a document with that
\* property EnableVPN, DisableVPN and GetStatus fail only because the read or
\* the write failed, and leave a document with that property.  Nothing else
\* writes the document, so after one successful mutation no later call fails
\* for a structural or not-found reason.
C36_PreconditionPreserved ==
    /\ Mutated(vmLast) => Mutable(ConfigFile)
    /\ [][(/\ Mutable(ConfigFile)
           /\ vmLast'.op \in {"EnableVPN", "DisableVPN", "GetStatus"})
          => /\ vmLast'.err \in {ErrNil, ErrReadConfig, ErrWriteConfig}
             /\ Mutable(ConfigFile')]_vars

\* GetStatus returned Enabled on a document that is none of the initial ones:
\* a successful mutation wrote it
C36_Witness ==
    /\ vmLast.op = "GetStatus"
    /\ vmLast.err = ErrNil
    /\ vmLast.status = VPNStatusEnabled
    /\ ConfigFile \notin InitialFiles
    /\ Len(DocRules(ConfigFile)) = 2

sendLoopContinuesOnceMore(attempt) == attempt <= maxRetries + 1

\* the condition of the loop: attempt <= maxRetries
sendLoopContinues(attempt) == attempt <= maxRetries

InitSend ==
    /\ InitIdle
    /\ InitRouter({Garbage})
    /\ InitCache
    /\ rule = Rule("", <<>>, "", "", NilValue, NilValue, "", NilValue)
    /\ ruleResult = [called |-> FALSE]

SendUnchanged ==
    UNCHANGED <<sshVars, vmLast, ruleVars, cacheVars, configPath, environ,
                svcLast, updates, health, mu, exec>>

\* a handler calls sendMessage(msg) for the chat of a user: attempt := 1
SendCall ==
    /\ send.pc = "idle"
    /\ \E chat \in Users :
         send' = [send EXCEPT !.pc = "loop", !.chat = chat, !.attempt = 1,
                              !.calls = 0, !.last = "none", !.sentMsg = 0]
    /\ SendUnchanged

\* one round of the loop: tb.bot.Send(msg) fails, and attempt++ follows with
\* or without the continue; or it returns the message sent, its ID is stored
\* in lastMessages and sendMessage returns
SendAttempt ==
    /\ send.pc = "loop"
    /\ sendLoopContinues(send.attempt)
    /\ \/ send' = [send EXCEPT !.calls = @ + 1, !.last = "failed",
                               !.sentMsg = 0, !.attempt = @ + 1]
       \/ \E id \in 1..MaxMessageID :
            send' = [send EXCEPT
                        !.calls = @ + 1, !.last = "ok", !.sentMsg = id,
                        !.lastMessages =
                            [c \in DOMAIN @ \cup {send.chat} |->
                                IF c = send.chat THEN id ELSE @[c]],
                        !.pc = "idle"]
    /\ SendUnchanged

\* the condition of the loop is false: sendMessage returns
SendGiveUp ==
    /\ send.pc = "loop"
    /\ ~sendLoopContinues(send.attempt)
    /\ send' = [send EXCEPT !.pc = "idle"]
    /\ SendUnchanged

NextSend ==
    \/ SendCall
    \/ SendAttempt
    \/ SendGiveUp

SpecSend == InitSend /\ [][NextSend]_vars

\* C38: a call of sendMessage makes at most three calls of Send; a Send that
\* succeeds is its last one, and the ID of the message it returned is stored
\* as the last message of the chat; a Send that fails stores nothing, and
\* sendMessage returns after a failure only when it was the third.
C38_AtMostThreeAttempts ==
    /\ send.calls <= 3
    /\ [][/\ (send'.calls = send.calls + 1 /\ send'.last = "ok")
             => /\ send'.pc = "idle"
                /\ send.chat \in DOMAIN send'.lastMessages
                /\ send'.lastMessages[send.chat] = send'.sentMsg
          /\ (send'.calls = send.calls + 1 /\ send'.last = "failed")
             => /\ send'.pc = "loop"
                /\ send'.lastMessages = send.lastMessages
          /\ (send.pc = "loop" /\ send'.pc = "idle" /\ send'.last = "failed")
             => /\ send'.calls = 3
                /\ send'.lastMessages = send.lastMessages]_vars

\* sendMessage has returned after three failures, and the chat still has the
\* ID an earlier call stored
C38_Witness ==
    /\ send.pc = "idle"
    /\ send.last = "failed"
    /\ send.calls = 3
    /\ send.chat \in DOMAIN send.lastMessages

====
